---- MODULE Spec2Model ----
(***************************************************************************)
(* State-machine model of the nostrsave web client's retrieval pipeline:   *)
(* the chunk collector fetchChunks (lib/nostr.ts) with its process-wide    *)
(* chunk cache and in-flight marker, and the two assemblers built on it,   *)
(* fetchFileBytes (lib/fileUtils.ts) and downloadEncrypted (FileDetail).   *)
(*                                                                         *)
(* The scheduling model is the JavaScript event loop: an action is one     *)
(* macrotask (a call from the UI, a relay message, a timer, a query        *)
(* result) or one microtask (the continuation of an await on a settled     *)
(* promise); macrotasks run only when the microtask queue is empty, and    *)
(* the reactions of one promise run in the order they were registered.     *)
(***************************************************************************)
EXTENDS Integers, Sequences, FiniteSets, TLC

VARIABLES
    chunkCache,   \* cache key -> [present, chunksByIndex, inFlight]
    fc,           \* call -> the frame of its fetchChunks invocation
    sub,          \* call -> state of the subscription the call opened
    fetchPromise, \* call -> state of the promise of the call's collection
    waiters,      \* call -> calls awaiting its promise through cached.inFlight
    micro,        \* the microtask queue
    lookups,      \* call -> the id batches the call has queried (history)
    progress,     \* call -> the counts passed to onProgress (history)
    overlap,      \* call -> the in-flight marker found when the call started
    held,         \* the chunk records the relays hold during the run
    fw,           \* call -> the frame of the caller of fetchChunks
    downloadAbortRef, \* FileDetail's downloadAbortRef.current
    dc,           \* the frame of a decryptChunkBinary call
    rs,           \* the frame of a fetchFileIndex or fetchManifest call
    fl,           \* the state of a mounted FileList and its pending loads
    pd            \* the frame of a calcPaddedLen call

collectorVars == <<chunkCache, fc, sub, fetchPromise, waiters, micro, lookups,
                   progress, overlap>>
callerVars == <<fw, downloadAbortRef>>
envVars == <<held, dc, rs, fl, pd>>
vars == <<chunkCache, fc, sub, fetchPromise, waiters, micro, lookups,
          progress, overlap, held, fw, downloadAbortRef, dc, rs, fl, pd>>

(***************************************************************************)
(* Bounds of the model.                                                    *)
(***************************************************************************)
NCalls == 2          \* calls made during a run (one more under SpecCrowd,
                     \* two more under SpecThrong)
MaxSmallTicks == 1   \* poll ticks per collection that arrive within the
                     \* inactivity window

Calls == 1..(NCalls + 2)
NoCall == 0

(***************************************************************************)
(* Program constants.                                                      *)
(***************************************************************************)
CHUNK_ID_BATCH_SIZE == 200
INACTIVITY_TIMEOUT == 5000
MAX_TOTAL_TIMEOUT == 300000
CHECK_INTERVAL == 100

\* parseChunkIndexFromTags returns null when no index can be parsed
NullIndex == -1

\* "not yet": no chunk list received, abort signal not set
Never == -1

(***************************************************************************)
(* The file being fetched: one cache key, its manifest, and the chunk      *)
(* records the relays hold for it.                                         *)
(***************************************************************************)
Keys == {"pk:hash"}

Absent == [t |-> "absent", v |-> 0]
Text == [t |-> "text", v |-> 0]
Num(n) == [t |-> "num", v |-> n]

\* DEFAULT_INDEX_RELAYS
DEFAULT_INDEX_RELAYS ==
    <<"wss://nos.lol", "wss://relay.nostr.net", "wss://relay.primal.net",
      "wss://relay.snort.social">>

\* manifest.relays is optional: absent, or the list given
NoRelays == [present |-> FALSE, list |-> <<>>]

RelayList(l) == [present |-> TRUE, list |-> l]

\* manifest.total_chunks, manifest.chunks and manifest.relays of the file
Manifest ==
    [total_chunks |-> 2,
     chunks |-> << [index |-> 0, event_id |-> "a"],
                   [index |-> 1, event_id |-> "d"] >>,
     relays |-> NoRelays]

\* Events matching the chunk filter (kind, author, #x). chunk is the value
\* of the 'chunk' tag, d the last ':'-separated segment of the 'd' tag,
\* enc the value of the 'encryption' tag ("" when the tag is missing),
\* content the base64 text of the payload, one character per element.
Events ==
    { [id |-> "a", chunk |-> Num(0), d |-> Absent,  enc |-> "",      content |-> <<"Q", "Q", "=", "=">>],
      [id |-> "b", chunk |-> Num(1), d |-> Absent,  enc |-> "nip44", content |-> <<"Q", "g", "=", "=">>],
      [id |-> "c", chunk |-> Text,   d |-> Num(1),  enc |-> "",      content |-> <<"Q", "0", "M", "=">>],
      [id |-> "d", chunk |-> Absent, d |-> Text,    enc |-> "",      content |-> <<"R", "A", "=", "=">>],
      [id |-> "e", chunk |-> Num(2), d |-> Absent,  enc |-> "",      content |-> <<"R", "Q", "=", "=">>] }

\* parseInt(s, 10), NaN modelled as NullIndex
ParseInt(tag) == IF tag.t = "num" THEN tag.v ELSE NullIndex

parseChunkIndexFromTags(ev) ==
    IF ev.chunk.t # "absent" /\ ParseInt(ev.chunk) # NullIndex
    THEN ParseInt(ev.chunk)
    ELSE IF ev.d.t = "absent" THEN NullIndex ELSE ParseInt(ev.d)

Encryption(ev) == IF ev.enc = "" THEN "none" ELSE ev.enc

(***************************************************************************)
(* Map<number, ChunkEvent> as the sequence of its values in insertion      *)
(* order (the order Array.from(map.values()) yields).                      *)
(***************************************************************************)
MapHas(m, i) == \E j \in 1..Len(m) : m[j].index = i

MapSet(m, ch) ==
    IF MapHas(m, ch.index)
    THEN [j \in 1..Len(m) |-> IF m[j].index = ch.index THEN ch ELSE m[j]]
    ELSE Append(m, ch)

MapSize(m) == Len(m)

Indices(m) == { m[j].index : j \in 1..Len(m) }

\* Array.prototype.sort((a, b) => a.index - b.index): a stable sort
RECURSIVE InsertSorted(_, _)
InsertSorted(s, x) ==
    IF s = <<>> THEN <<x>>
    ELSE IF x.index - s[Len(s)].index >= 0 THEN Append(s, x)
    ELSE Append(InsertSorted(SubSeq(s, 1, Len(s) - 1), x), s[Len(s)])

\* the comparator reversed: (a, b) => b.index - a.index
RECURSIVE SortByIndex_Reversed(_)
SortByIndex_Reversed(s) ==
    IF s = <<>> THEN <<>>
    ELSE LET rest == SortByIndex_Reversed(SubSeq(s, 1, Len(s) - 1))
             x == s[Len(s)]
             before == SelectSeq(rest, LAMBDA y : y.index - x.index >= 0)
             after == SelectSeq(rest, LAMBDA y : y.index - x.index < 0)
         IN  before \o <<x>> \o after

RECURSIVE SortByIndex(_)
SortByIndex(s) ==
    IF s = <<>> THEN <<>>
    ELSE InsertSorted(SortByIndex(SubSeq(s, 1, Len(s) - 1)), s[Len(s)])

(***************************************************************************)
(* Byte conversions (lib/crypto.ts): base64 text to bytes, and the         *)
(* decryption of a chunk payload.                                          *)
(***************************************************************************)
B64Alphabet ==
    << "A", "B", "C", "D", "E", "F", "G", "H", "I", "J", "K", "L", "M",
       "N", "O", "P", "Q", "R", "S", "T", "U", "V", "W", "X", "Y", "Z",
       "a", "b", "c", "d", "e", "f", "g", "h", "i", "j", "k", "l", "m",
       "n", "o", "p", "q", "r", "s", "t", "u", "v", "w", "x", "y", "z",
       "0", "1", "2", "3", "4", "5", "6", "7", "8", "9", "+", "/" >>

\* the 6-bit value of a base64 character, NullIndex for any other character
B64Value(ch) ==
    IF \E i \in 1..Len(B64Alphabet) : B64Alphabet[i] = ch
    THEN (CHOOSE i \in 1..Len(B64Alphabet) : B64Alphabet[i] = ch) - 1
    ELSE NullIndex

\* atob drops one or two trailing '=' of a text whose length divides by 4
StripPadding(s) ==
    IF Len(s) > 1 /\ Len(s) % 4 = 0 /\ s[Len(s)] = "="
    THEN IF s[Len(s) - 1] = "=" THEN SubSeq(s, 1, Len(s) - 2)
         ELSE SubSeq(s, 1, Len(s) - 1)
    ELSE s

\* four 6-bit values give three bytes; the bits left over at the end of a
\* last group of two or three values are dropped
RECURSIVE DecodeSextets(_)
DecodeSextets(v) ==
    IF Len(v) >= 4
    THEN << v[1] * 4 + v[2] \div 16,
            (v[2] % 16) * 16 + v[3] \div 4,
            (v[3] % 4) * 64 + v[4] >> \o DecodeSextets(SubSeq(v, 5, Len(v)))
    ELSE IF Len(v) = 3
    THEN << v[1] * 4 + v[2] \div 16, (v[2] % 16) * 16 + v[3] \div 4 >>
    ELSE IF Len(v) = 2
    THEN << v[1] * 4 + v[2] \div 16 >>
    ELSE <<>>

\* atob(s): throws (ok = FALSE) on a character outside the alphabet or on
\* a length that leaves a single 6-bit value over
atob(s) ==
    LET t == StripPadding(s)
        v == [j \in 1..Len(t) |-> B64Value(t[j])]
    IN  IF Len(t) % 4 = 1 \/ \E j \in 1..Len(t) : v[j] = NullIndex
        THEN [ok |-> FALSE, bytes |-> <<>>]
        ELSE [ok |-> TRUE, bytes |-> DecodeSextets(v)]

\* one byte per character code of the binary string atob returns
base64ToUint8Array(s) == atob(s)

\* the payloads that authenticate under the conversation key of the
\* file's owner: all but that of record "d"
Sealed == { ev.content : ev \in { e \in Events : e.id # "d" } }

\* decryptChunkBinary(content, secretKey, pubkey): the plaintext bytes, or
\* a thrown error (ok = FALSE) when the payload does not decode or does
\* not authenticate under the key entered (keyOk: it is the owner's key).
\* The cipher is modelled as a byte-wise shift of the decoded payload.
decryptChunkBinary(content, keyOk) ==
    LET d == atob(content)
    IN  IF d.ok /\ keyOk /\ content \in Sealed
        THEN [ok |-> TRUE,
              bytes |-> [j \in 1..Len(d.bytes) |-> (d.bytes[j] + 128) % 256]]
        ELSE [ok |-> FALSE, bytes |-> <<>>]

\* no decryptChunkBinary call, no resolver call
NoDecrypt == [pc |-> "idle"]
NoResolve == [pc |-> "idle"]

(***************************************************************************)
(* fetchChunks: helpers.                                                   *)
(***************************************************************************)
Min(a, b) == IF a < b THEN a ELSE b

\* indexByEventId.get(id): the map built from chunkInfos, a later info
\* with the same event_id replacing an earlier one
IndexByEventId(infos, id) ==
    LET S == { j \in 1..Len(infos) :
                 infos[j].event_id # "" /\ infos[j].event_id = id }
    IN  IF S = {} THEN NullIndex
        ELSE infos[CHOOSE j \in S : \A k \in S : k <= j].index

\* chunkInfos.find(c => c.index === index)?.event_id, "" when there is none
HintFor(infos, index) ==
    LET S == { j \in 1..Len(infos) : infos[j].index = index }
    IN  IF S = {} THEN ""
        ELSE infos[CHOOSE j \in S : \A k \in S : j <= k].event_id

\* the hinted record ids of the indices of [lo, hi) that chunksByIndex
\* lacks, in ascending index order
RECURSIVE MissingIdsIn(_, _, _, _)
MissingIdsIn(m, infos, lo, hi) ==
    IF hi <= lo THEN <<>>
    ELSE IF hi = lo + 1
         THEN IF ~MapHas(m, lo) /\ HintFor(infos, lo) # ""
              THEN <<HintFor(infos, lo)>> ELSE <<>>
         ELSE LET mid == (lo + hi) \div 2
              IN  MissingIdsIn(m, infos, lo, mid) \o
                  MissingIdsIn(m, infos, mid, hi)

\* missingIds: those of the indices of [0, totalChunks)
MissingIds(m, total, infos) == MissingIdsIn(m, infos, 0, total)

\* the rest of the ids in one lookup
Batch_Whole(ids, i) == SubSeq(ids, i + 1, Len(ids))

\* missingIds.slice(i, i + CHUNK_ID_BATCH_SIZE)
Batch(ids, i) == SubSeq(ids, i + 1, Min(i + CHUNK_ID_BATCH_SIZE, Len(ids)))

SeqRange(s) == { s[j] : j \in 1..Len(s) }

\* The body of onevent (stream) and of the loop over a lookup's events
\* (fallback, where a record without a parsable index takes the index the
\* manifest gives for its id). st = [local, seen, cached, present, prog].
HandleEvent(st, ev, infos, fallback) ==
    IF ev.id \in st.seen THEN st
    ELSE LET seen2 == st.seen \cup {ev.id}
             parsed == parseChunkIndexFromTags(ev)
             index == IF parsed # NullIndex THEN parsed
                      ELSE IF fallback THEN IndexByEventId(infos, ev.id)
                      ELSE NullIndex
             chunk == [index |-> index, content |-> ev.content,
                       encryption |-> Encryption(ev)]
         IN  IF index = NullIndex \/ MapHas(st.local, index)
             THEN [st EXCEPT !.seen = seen2]
             ELSE [st EXCEPT
                     !.seen = seen2,
                     !.local = MapSet(st.local, chunk),
                     !.cached = IF st.present THEN MapSet(st.cached, chunk)
                                ELSE st.cached,
                     !.prog = Append(st.prog, MapSize(MapSet(st.local, chunk)))]

RECURSIVE HandleEvents(_, _, _)
HandleEvents(st, evs, infos) ==
    IF evs = <<>> THEN st
    ELSE HandleEvents(HandleEvent(st, evs[1], infos, TRUE), Tail(evs), infos)

HandlerState(c) ==
    [local |-> fc[c].chunksByIndex, seen |-> fc[c].seenEventIds,
     cached |-> chunkCache[fc[c].key].chunksByIndex,
     present |-> chunkCache[fc[c].key].present, prog |-> progress[c]]

IdleFrame ==
    [pc |-> "idle", key |-> "", totalChunks |-> 0, chunkInfos |-> <<>>,
     chunksByIndex |-> <<>>, seenEventIds |-> {}, now |-> 0,
     lastActivity |-> 0, lastSize |-> 0, smallTicks |-> 0, startSize |-> 0,
     missingIds |-> <<>>, i |-> 0, awaited |-> NoCall, result |-> <<>>,
     atCall |-> <<>>]

NoEntry == [present |-> FALSE, chunksByIndex |-> <<>>, inFlight |-> NoCall]

\* the comparison written as size > totalChunks
CacheComplete_Greater(k, total) ==
    chunkCache[k].present /\ MapSize(chunkCache[k].chunksByIndex) > total

\* cached?.chunksByIndex && cached.chunksByIndex.size === totalChunks
CacheComplete(k, total) ==
    chunkCache[k].present /\ MapSize(chunkCache[k].chunksByIndex) = total

\* The frame of a caller of fetchChunks: fetchFileBytes ("bytes"), the
\* encrypted download ("enc"), or a bare call ("raw").
\*   aborted       abortSignal.aborted of a fetchFileBytes call
\*   abortedAfter  the number of checkpoints passed when the signal was set
\*   checks        the number of abort checkpoints the call has run
\*   sawAbort      the flag as read at the last checkpoint run
\*   shared        the calls awaiting the caller's collection, or the
\*                 caller itself awaiting another's, when the signal was set
\*   got           chunks.length, once fetchChunks has returned
\*   decrypted     decryptedParts.length when the decrypt loop ended
\*   saved         triggerDownload was called
\*   closedRelays  the relays handed to pool.close
NoCaller ==
    [kind |-> "none", pc |-> "idle", aborted |-> FALSE, abortedAfter |-> Never,
     checks |-> 0, sawAbort |-> FALSE, shared |-> FALSE, keyOk |-> FALSE, pool |-> "none",
     closes |-> 0, keyCleared |-> FALSE, got |-> Never, decrypted |-> 0,
     saved |-> FALSE, outcome |-> "none", data |-> <<>>,
     manifestRelays |-> NoRelays, dataRelays |-> <<>>, closedRelays |-> <<>>]

RawCaller == [NoCaller EXCEPT !.kind = "raw"]

\* useState<FileIndex | null>(null)
NoIndexShown == [present |-> FALSE, pubkey |-> "", page |-> 0, total_archives |-> 0]

\* no FileList mounted
NoFileList ==
    [pubkey |-> "", page |-> 0, loading |-> FALSE, error |-> "null",
     index |-> NoIndexShown, pending |-> {}, issued |-> 0]

\* calcPaddedLen not yet called
NoPad == [pc |-> "idle", len |-> 0, padded |-> 0]

\* the continuation of the caller awaiting fetchChunks, if the call has one
CallerTask(c) ==
    IF fw[c].kind = "raw" THEN <<>> ELSE << [kind |-> "caller", call |-> c] >>

\* the reactions registered on the promise of c's collection, in order:
\* c's own await first, then the callers that found the marker
Reactions(c) ==
    << [kind |-> "own", call |-> c] >> \o
    [j \in 1..Len(waiters[c]) |-> [kind |-> "waiter", call |-> waiters[c][j]]]

(***************************************************************************)
(* fetchChunks: the synchronous part of a call, up to its first await.     *)
(***************************************************************************)
\* the in-flight marker never looked at
InFlightFound_Ignored(k) == FALSE

\* cached?.inFlight
InFlightFound(k) == chunkCache[k].present /\ chunkCache[k].inFlight # NoCall

\* The promise of c's collection settles: its reactions are queued.
Settled(c, outcome, mq) ==
    /\ fetchPromise' = [fetchPromise EXCEPT ![c] = outcome]
    /\ micro' = mq \o Reactions(c)
    /\ waiters' = [waiters EXCEPT ![c] = <<>>]

\* new Map(cached?.chunksByIndex ?? [])
LocalCopy(entry) == IF entry.present THEN entry.chunksByIndex ELSE <<>>

\* From "const chunksByIndex = new Map(cached?.chunksByIndex ?? [])" to
\* "await fetchPromise": the call copies the cached chunks, opens its
\* subscription, enters the polling loop and sets the in-flight marker.
StartCollectionWith(c, k, total, infos, mq, atCall) ==
    LET entry == chunkCache[k]
        local == LocalCopy(entry)
        looping == MapSize(local) < total
    IN  /\ progress' = [progress EXCEPT ![c] =
               IF MapSize(local) > 0 THEN Append(@, MapSize(local)) ELSE @]
        /\ fc' = [fc EXCEPT ![c] =
               [IdleFrame EXCEPT !.pc = IF looping THEN "stream" ELSE "settled",
                                 !.key = k, !.totalChunks = total,
                                 !.chunkInfos = infos,
                                 !.chunksByIndex = local,
                                 !.startSize =
                                    IF looping THEN MapSize(local) ELSE 0,
                                 !.awaited = fc[c].awaited,
                                 !.atCall = atCall]]
        /\ sub' = [sub EXCEPT ![c] = IF looping THEN "open" ELSE "closed"]
        /\ chunkCache' = [chunkCache EXCEPT ![k] =
               [present |-> TRUE, chunksByIndex |-> entry.chunksByIndex,
                inFlight |-> c]]
        /\ IF looping
           THEN /\ fetchPromise' = [fetchPromise EXCEPT ![c] = "pending"]
                /\ micro' = mq
                /\ UNCHANGED waiters
           ELSE Settled(c, "resolved", mq)
        /\ UNCHANGED lookups

\* the chunks the cache holds for k, noted when snap is set
AtCall(k, snap) ==
    IF snap /\ chunkCache[k].present THEN chunkCache[k].chunksByIndex
    ELSE <<>>

\* a collection of c that keeps what the frame notes of the call's start
StartCollection(c, k, total, infos, mq) ==
    StartCollectionWith(c, k, total, infos, mq, fc[c].atCall)

\* The call up to its first await or its return; with snap the frame notes
\* the chunks the cache held when the call was made.
FetchChunksStartWith(c, k, total, infos, mq, snap) ==
    /\ overlap' = [overlap EXCEPT ![c] = chunkCache[k].inFlight]
    /\ IF CacheComplete(k, total)
       THEN /\ fc' = [fc EXCEPT ![c] =
                   [IdleFrame EXCEPT !.pc = "done", !.key = k,
                                     !.totalChunks = total,
                                     !.chunkInfos = infos,
                                     !.atCall = AtCall(k, snap),
                                     !.result =
                                        SortByIndex(chunkCache[k].chunksByIndex)]]
            /\ micro' = mq \o CallerTask(c)
            /\ UNCHANGED <<chunkCache, sub, fetchPromise, waiters, lookups,
                           progress>>
       ELSE IF InFlightFound(k)
       THEN /\ fc' = [fc EXCEPT ![c] =
                   [IdleFrame EXCEPT !.pc = "awaitInFlight", !.key = k,
                                     !.totalChunks = total,
                                     !.chunkInfos = infos,
                                     !.atCall = AtCall(k, snap),
                                     !.awaited = chunkCache[k].inFlight]]
            /\ waiters' = [waiters EXCEPT ![chunkCache[k].inFlight] =
                               Append(@, c)]
            /\ micro' = mq
            /\ UNCHANGED <<chunkCache, sub, fetchPromise, lookups, progress>>
       ELSE StartCollectionWith(c, k, total, infos, mq, AtCall(k, snap))

FetchChunksStart(c, k, total, infos, mq) ==
    FetchChunksStartWith(c, k, total, infos, mq, FALSE)

(***************************************************************************)
(* fetchChunks: the collection (the async block behind fetchPromise).      *)
(***************************************************************************)
\* what a handler run leaves in the call's frame, the cache and the log
StoreHandled(c, st) ==
    /\ chunkCache' = [chunkCache EXCEPT ![fc[c].key].chunksByIndex = st.cached]
    /\ progress' = [progress EXCEPT ![c] = st.prog]

\* onevent: a relay delivers a record to the call's open subscription
Deliver(c, ev) ==
    /\ micro = <<>>
    /\ sub[c] = "open"
    /\ ev \in held
    /\ LET st == HandleEvent(HandlerState(c), ev, fc[c].chunkInfos, FALSE)
       IN  /\ fc' = [fc EXCEPT ![c].chunksByIndex = st.local,
                               ![c].seenEventIds = st.seen]
           /\ StoreHandled(c, st)
    /\ UNCHANGED <<sub, fetchPromise, waiters, micro, lookups, overlap, envVars,
                   callerVars>>

\* the delays after which a poll timer of CHECK_INTERVAL ms may fire
TickDelays == {CHECK_INTERVAL, MAX_TOTAL_TIMEOUT + CHECK_INTERVAL}

\* the loop left on inactivity only
LoopBreaks_NoCeiling(now, lastActivity) ==
    now - lastActivity > INACTIVITY_TIMEOUT

\* the two break conditions of the loop body, startTime being 0
LoopBreaks(now, lastActivity) ==
    \/ now - lastActivity > INACTIVITY_TIMEOUT
    \/ now - 0 > MAX_TOTAL_TIMEOUT

\* the subscription left open after the loop
SubClose_LeftOpen(s) == s

\* sub.close()
SubClose(s) == "closed"

\* One turn of the polling loop: the timer fires d ms after it was set;
\* on leaving the loop the subscription is closed and either the first
\* id lookup is issued or the collection ends. The loop's variables are
\* dead once it is left: they are zeroed then unless keep is set.
PollTickWith(c, d, keep) ==
    /\ micro = <<>>
    /\ fc[c].pc = "stream"
    /\ d <= INACTIVITY_TIMEOUT => fc[c].smallTicks < MaxSmallTicks
    /\ LET f == fc[c]
           size == MapSize(f.chunksByIndex)
           now == f.now + d
           grew == size > f.lastSize
           lastActivity == IF grew THEN now ELSE f.lastActivity
           lastSize == IF grew THEN size ELSE f.lastSize
           timedOut == LoopBreaks(now, lastActivity)
           missingIds == MissingIds(f.chunksByIndex, f.totalChunks,
                                    f.chunkInfos)
           left == [f EXCEPT !.now = IF keep THEN now ELSE 0,
                             !.lastActivity = IF keep THEN lastActivity ELSE 0,
                             !.lastSize = IF keep THEN lastSize ELSE 0,
                             !.startSize = IF keep THEN @ ELSE 0,
                             !.smallTicks = 0]
       IN  IF ~timedOut /\ size < f.totalChunks
           THEN /\ fc' = [fc EXCEPT ![c].now = now,
                                    ![c].lastActivity = lastActivity,
                                    ![c].lastSize = lastSize,
                                    ![c].smallTicks =
                                       IF d <= INACTIVITY_TIMEOUT
                                       THEN @ + 1 ELSE @]
                /\ UNCHANGED <<sub, fetchPromise, waiters, micro, lookups>>
           ELSE /\ sub' = [sub EXCEPT ![c] = SubClose(@)]
                /\ IF size < f.totalChunks /\ missingIds # <<>>
                   THEN /\ fc' = [fc EXCEPT ![c] =
                                     [left EXCEPT !.pc = "fallback",
                                                  !.missingIds = missingIds,
                                                  !.i = 0]]
                        /\ lookups' = [lookups EXCEPT ![c] =
                                           Append(@, Batch(missingIds, 0))]
                        /\ UNCHANGED <<fetchPromise, waiters, micro>>
                   ELSE /\ fc' = [fc EXCEPT ![c] =
                                     [left EXCEPT !.pc = "settled"]]
                        /\ Settled(c, "resolved", micro)
                        /\ UNCHANGED lookups
    /\ UNCHANGED <<chunkCache, progress, overlap, envVars, callerVars>>

PollTick(c, d) == PollTickWith(c, d, FALSE)

\* the lists a lookup can return: the records whose id is in the batch
\* that some relay holds, in any order
RECURSIVE Orderings(_)
Orderings(S) ==
    IF S = {} THEN { <<>> }
    ELSE UNION { { <<x>> \o t : t \in Orderings(S \ {x}) } : x \in S }

QueryResults(batch) ==
    UNION { Orderings(S) :
              S \in SUBSET { ev \in held : ev.id \in SeqRange(batch) } }

\* pool.querySync returns for the batch at missingIds[i..]: its events are
\* handled, then the next batch is queried or the collection ends
QueryReturnWith(c, evs) ==
    /\ LET f == fc[c]
           st == HandleEvents(HandlerState(c), evs, f.chunkInfos)
           next == f.i + CHUNK_ID_BATCH_SIZE
       IN  /\ StoreHandled(c, st)
           /\ IF next < Len(f.missingIds)
              THEN /\ fc' = [fc EXCEPT ![c].chunksByIndex = st.local,
                                       ![c].seenEventIds = st.seen,
                                       ![c].i = next]
                   /\ lookups' = [lookups EXCEPT ![c] =
                                      Append(@, Batch(f.missingIds, next))]
                   /\ UNCHANGED <<fetchPromise, waiters, micro>>
              ELSE /\ fc' = [fc EXCEPT ![c].chunksByIndex = st.local,
                                       ![c].seenEventIds = st.seen,
                                       ![c].missingIds = <<>>,
                                       ![c].i = 0,
                                       ![c].pc = "settled"]
                   /\ Settled(c, "resolved", micro)
                   /\ UNCHANGED lookups
    /\ UNCHANGED <<sub, overlap, envVars, callerVars>>

QueryReturn(c) ==
    /\ micro = <<>>
    /\ fc[c].pc = "fallback"
    /\ \E evs \in QueryResults(Batch(fc[c].missingIds, fc[c].i)) :
          QueryReturnWith(c, evs)

\* pool.querySync rejects: the collection ends with the error
QueryFail(c) ==
    /\ micro = <<>>
    /\ fc[c].pc = "fallback"
    /\ fc' = [fc EXCEPT ![c].pc = "settled", ![c].missingIds = <<>>,
                         ![c].i = 0]
    /\ Settled(c, "rejected", micro)
    /\ UNCHANGED <<chunkCache, sub, lookups, progress, overlap, envVars,
                   callerVars>>

(***************************************************************************)
(* fetchChunks: the continuations of the awaits.                           *)
(***************************************************************************)
\* the marker left in place
ClearInFlight_Kept(entry) == entry

\* the entry emptied when its collection ends
ClearInFlight_Evicts(entry) == NoEntry

\* finally { const current = chunkCache.get(cacheKey);
\*           if (current) current.inFlight = undefined; }
ClearInFlight(entry) ==
    IF entry.present THEN [entry EXCEPT !.inFlight = NoCall] ELSE entry

\* After "await fetchPromise": the marker is cleared, then the call returns
\* its chunks sorted by index, or fails with the collection's error.
OwnResume(c) ==
    /\ micro # <<>>
    /\ micro[1] = [kind |-> "own", call |-> c]
    /\ chunkCache' = [chunkCache EXCEPT ![fc[c].key] = ClearInFlight(@)]
    /\ IF fetchPromise[c] = "resolved"
       THEN fc' = [fc EXCEPT ![c].pc = "done",
                             ![c].chunksByIndex = <<>>,
                             ![c].seenEventIds = {},
                             ![c].result = SortByIndex(fc[c].chunksByIndex)]
       ELSE fc' = [fc EXCEPT ![c].pc = "failed",
                             ![c].chunksByIndex = <<>>,
                             ![c].seenEventIds = {}]
    /\ micro' = Tail(micro) \o CallerTask(c)
    /\ UNCHANGED <<sub, fetchPromise, waiters, lookups, progress, overlap,
                   envVars, callerVars>>

\* the rejection of the awaited collection not rethrown
AwaitRethrows_Swallowed(c) == FALSE

\* "await cached.inFlight" throws what the awaited promise was rejected with
AwaitRethrows(c) == fetchPromise[fc[c].awaited] = "rejected"

\* After "await cached.inFlight": the error of the awaited collection is
\* rethrown; otherwise the cache is looked up again and the call returns
\* it when complete, or else starts a collection of its own.
WaiterResume(c) ==
    /\ micro # <<>>
    /\ micro[1] = [kind |-> "waiter", call |-> c]
    /\ IF AwaitRethrows(c)
       THEN /\ fc' = [fc EXCEPT ![c].pc = "failed"]
            /\ micro' = Tail(micro) \o CallerTask(c)
            /\ UNCHANGED <<chunkCache, sub, fetchPromise, waiters, lookups,
                           progress>>
       ELSE IF CacheComplete(fc[c].key, fc[c].totalChunks)
       THEN /\ fc' = [fc EXCEPT ![c].pc = "done",
                                ![c].result =
                                   SortByIndex(chunkCache[fc[c].key].chunksByIndex)]
            /\ micro' = Tail(micro) \o CallerTask(c)
            /\ UNCHANGED <<chunkCache, sub, fetchPromise, waiters, lookups,
                           progress>>
       ELSE StartCollection(c, fc[c].key, fc[c].totalChunks,
                            fc[c].chunkInfos, Tail(micro))
    /\ UNCHANGED <<overlap, envVars, callerVars>>

(***************************************************************************)
(* The collector on its own: fetchChunks called NCalls times.              *)
(***************************************************************************)
\* a caller invokes fetchChunks for the file
Call(c) ==
    /\ micro = <<>>
    /\ fc[c].pc = "idle"
    /\ c > 1 => fc[c - 1].pc # "idle"
    /\ \E k \in Keys :
          FetchChunksStart(c, k, Manifest.total_chunks, Manifest.chunks, micro)
    /\ UNCHANGED <<envVars, callerVars>>

\* what the relays hold: the two records of the file with, either, a second
\* record for index 1 and the record without a parsable index, or the
\* record whose index lies outside [0, total_chunks)
HeldOf(ids) == { ev \in Events : ev.id \in ids }
HeldChoices == { HeldOf({"a", "b", "c", "d"}), HeldOf({"a", "b", "e"}) }

Init ==
    /\ held \in HeldChoices
    /\ chunkCache = [k \in Keys |-> NoEntry]
    /\ fc = [c \in Calls |-> IdleFrame]
    /\ sub = [c \in Calls |-> "none"]
    /\ fetchPromise = [c \in Calls |-> "none"]
    /\ waiters = [c \in Calls |-> <<>>]
    /\ micro = <<>>
    /\ lookups = [c \in Calls |-> <<>>]
    /\ progress = [c \in Calls |-> <<>>]
    /\ overlap = [c \in Calls |-> NoCall]
    /\ fw = [c \in Calls |-> RawCaller]
    /\ downloadAbortRef = FALSE
    /\ dc = NoDecrypt
    /\ rs = NoResolve
    /\ fl = NoFileList
    /\ pd = NoPad

\* the steps of the collections under way
Collect ==
    \/ \E c \in Calls, ev \in Events : Deliver(c, ev)
    \/ \E c \in Calls, d \in TickDelays : PollTick(c, d)
    \/ \E c \in Calls : QueryReturn(c)
    \/ \E c \in Calls : QueryFail(c)
    \/ \E c \in Calls : OwnResume(c)
    \/ \E c \in Calls : WaiterResume(c)

Next ==
    \/ \E c \in 1..NCalls : Call(c)
    \/ Collect

Spec == Init /\ [][Next]_vars

\* one more call than under Spec: the least number of calls with which two
\* calls can await the same collection
NextCrowd ==
    \/ \E c \in 1..(NCalls + 1) : Call(c)
    \/ Collect

SpecCrowd == Init /\ [][NextCrowd]_vars

\* a file of more chunks than two id batches hold less SpareIds: index 0
\* is hinted as record a, index 1 has no hint, index 2 is hinted as record
\* d, every further index has a hint of its own that no relay holds
SpareIds == 3
LongTotal == CHUNK_ID_BATCH_SIZE + SpareIds
LongChunks ==
    [j \in 1..LongTotal |->
        [index |-> j - 1,
         event_id |-> IF j = 1 THEN "a"
                      ELSE IF j = 2 THEN ""
                      ELSE IF j = 3 THEN "d"
                      ELSE "h" \o ToString(j - 1)]]

\* a caller invokes fetchChunks for the long file
CallLong(c) ==
    /\ micro = <<>>
    /\ fc[c].pc = "idle"
    /\ c > 1 => fc[c - 1].pc # "idle"
    /\ \E k \in Keys : FetchChunksStart(c, k, LongTotal, LongChunks, micro)
    /\ UNCHANGED <<envVars, callerVars>>

\* one call for the long file, from its start to its return
NextLong ==
    \/ CallLong(1)
    \/ \E ev \in Events : Deliver(1, ev)
    \/ \E d \in TickDelays : PollTick(1, d)
    \/ QueryReturn(1)
    \/ QueryFail(1)
    \/ OwnResume(1)

SpecLong == Init /\ [][NextLong]_vars

\* a caller invokes fetchChunks for the file; the frame notes what the cache
\* held
CallKept(c) ==
    /\ micro = <<>>
    /\ fc[c].pc = "idle"
    /\ c > 1 => fc[c - 1].pc # "idle"
    /\ \E k \in Keys :
          FetchChunksStartWith(c, k, Manifest.total_chunks, Manifest.chunks,
                               micro, TRUE)
    /\ UNCHANGED <<envVars, callerVars>>

\* two more calls than under Spec: the least number of calls with which a
\* call can await one of two collections that run at the same time. The
\* relays hold two records for index 1, one of them found by its id only.
InitThrong ==
    /\ held = HeldOf({"c", "d"})
    /\ chunkCache = [k \in Keys |-> NoEntry]
    /\ fc = [c \in Calls |-> IdleFrame]
    /\ sub = [c \in Calls |-> "none"]
    /\ fetchPromise = [c \in Calls |-> "none"]
    /\ waiters = [c \in Calls |-> <<>>]
    /\ micro = <<>>
    /\ lookups = [c \in Calls |-> <<>>]
    /\ progress = [c \in Calls |-> <<>>]
    /\ overlap = [c \in Calls |-> NoCall]
    /\ fw = [c \in Calls |-> RawCaller]
    /\ downloadAbortRef = FALSE
    /\ dc = NoDecrypt
    /\ rs = NoResolve
    /\ fl = NoFileList
    /\ pd = NoPad

NextThrong ==
    \/ \E c \in Calls : CallKept(c)
    \/ Collect

SpecThrong == InitThrong /\ [][NextThrong]_vars

\* the delays after which a poll timer may fire when the clock is watched:
\* at the inactivity window, just past it, and past the ceiling
PollDelays ==
    {INACTIVITY_TIMEOUT, INACTIVITY_TIMEOUT + CHECK_INTERVAL,
     MAX_TOTAL_TIMEOUT + CHECK_INTERVAL}

\* the timer of c's polling loop fires
PollTimer(c) == \E d \in PollDelays : PollTickWith(c, d, TRUE)

\* the microtask at the head of the queue runs
RunMicrotask == \E c \in Calls : OwnResume(c) \/ WaiterResume(c)

\* the collector with the loop's clock kept for inspection
NextPoll ==
    \/ \E c \in 1..NCalls : Call(c)
    \/ \E c \in Calls, ev \in Events : Deliver(c, ev)
    \/ \E c \in Calls : PollTimer(c)
    \/ \E c \in Calls : QueryReturn(c)
    \/ \E c \in Calls : QueryFail(c)
    \/ RunMicrotask

SpecPoll == Init /\ [][NextPoll]_vars

\* timers that are due fire and queued microtasks run
SpecPollFair ==
    /\ SpecPoll
    /\ \A c \in Calls : WF_vars(PollTimer(c))
    /\ WF_vars(RunMicrotask)

(***************************************************************************)
(* The assemblers: fetchFileBytes (lib/fileUtils.ts) and downloadEncrypted *)
(* (FileDetail), each around one fetchChunks call.                         *)
(***************************************************************************)
\* the comparison written as chunks.length > manifest.total_chunks
CountMismatch_Greater(chunks, total) == Len(chunks) > total

\* chunks.length !== manifest.total_chunks
CountMismatch(chunks, total) == Len(chunks) # total

\* fileData.set(part, offset) for each part in turn
RECURSIVE Concat(_)
Concat(parts) ==
    IF parts = <<>> THEN <<>> ELSE Head(parts) \o Concat(Tail(parts))

\* chunks.map(chunk => base64ToUint8Array(chunk.content)) and the
\* concatenation of the parts; atob throwing fails the call
AssembleBytes(chunks) ==
    LET parts == [j \in 1..Len(chunks) |-> base64ToUint8Array(chunks[j].content)]
    IN  IF \E j \in 1..Len(chunks) : ~parts[j].ok
        THEN [ok |-> FALSE, data |-> <<>>]
        ELSE [ok |-> TRUE,
              data |-> Concat([j \in 1..Len(chunks) |-> parts[j].bytes])]

\* a chunk that fails to decrypt is left out and the loop goes on
RECURSIVE DecryptLoop_Skip(_, _, _, _)
DecryptLoop_Skip(chunks, keyOk, i, parts) ==
    IF i > Len(chunks) THEN [ok |-> TRUE, parts |-> parts]
    ELSE LET r == decryptChunkBinary(chunks[i].content, keyOk)
         IN  IF r.ok
             THEN DecryptLoop_Skip(chunks, keyOk, i + 1, Append(parts, r.bytes))
             ELSE DecryptLoop_Skip(chunks, keyOk, i + 1, parts)

\* for (let i = 0; i < chunks.length; i++): decryptedParts grows by one
\* part per chunk until a chunk fails to decrypt
RECURSIVE DecryptLoop(_, _, _, _)
DecryptLoop(chunks, keyOk, i, parts) ==
    IF i > Len(chunks) THEN [ok |-> TRUE, parts |-> parts]
    ELSE LET r == decryptChunkBinary(chunks[i].content, keyOk)
         IN  IF r.ok
             THEN DecryptLoop(chunks, keyOk, i + 1, Append(parts, r.bytes))
             ELSE [ok |-> FALSE, parts |-> parts]

\* the checkpoint never sees the signal
AbortObserved_Never(c) == FALSE

\* abortSignal?.aborted
AbortObserved(c) == fw[c].aborted

\* finally { pool.close(DEFAULT_INDEX_RELAYS) }
Finished(f, outcome) ==
    [f EXCEPT !.pc = "end", !.outcome = outcome, !.pool = "closed",
              !.closes = @ + 1, !.closedRelays = DEFAULT_INDEX_RELAYS]

\* a checkpoint that lets the call through
Checked(f) == [f EXCEPT !.checks = @ + 1, !.sawAbort = FALSE]

\* a checkpoint that stops the call: throw new Error('Aborted')
Stopped(f) ==
    Finished([f EXCEPT !.checks = @ + 1, !.sawAbort = TRUE], "Aborted")

\* fetchFileBytes is called, ab telling whether the signal it is given is
\* set already: the first checkpoint, createPool, and the manifest query
FetchFileBytes(c, ab) ==
    /\ micro = <<>>
    /\ fw[c].pc = "idle"
    /\ c > 1 => fw[c - 1].pc # "idle"
    /\ fw' = [fw EXCEPT ![c] =
          IF ab
          THEN [NoCaller EXCEPT !.kind = "bytes", !.pc = "end",
                                !.aborted = TRUE, !.abortedAfter = 0,
                                !.checks = 1, !.sawAbort = TRUE,
                                !.outcome = "Aborted"]
          ELSE [NoCaller EXCEPT !.kind = "bytes", !.pc = "manifest",
                                !.checks = 1, !.pool = "open"]]
    /\ UNCHANGED <<collectorVars, envVars, downloadAbortRef>>

ManifestResults == {"found", "null", "throw"}

\* manifest.relays?.length > 0 ? manifest.relays : DEFAULT_INDEX_RELAYS
DataRelays_AlwaysDefault(relays) == DEFAULT_INDEX_RELAYS

DataRelays(relays) ==
    IF relays.present /\ Len(relays.list) > 0
    THEN relays.list
    ELSE DEFAULT_INDEX_RELAYS

\* the relays of the chunk lookup are chosen and fetchChunks is called
WithDataRelays(f, relays) ==
    [f EXCEPT !.pc = "chunks", !.manifestRelays = relays,
              !.dataRelays = DataRelays(relays)]

\* finally { pool.close(DEFAULT_INDEX_RELAYS); clearSecretKey(secretKey) }
FinishedEnc_KeepKey(f, outcome) == Finished(f, outcome)

FinishedEnc(f, outcome) == [Finished(f, outcome) EXCEPT !.keyCleared = TRUE]

\* how the function of the frame leaves: the modal's downloadEncrypted
\* runs its finally block, fetchFileBytes has no key
Leave(f, outcome) ==
    IF f.kind = "modal" THEN FinishedEnc(f, outcome) ELSE Finished(f, outcome)

\* fetchManifest returns the manifest (with its relays field) or null, or
\* throws; with a manifest and the signal not set, fetchChunks is called
ManifestReturnWith(c, r, relays) ==
    /\ micro = <<>>
    /\ fw[c].kind \in {"bytes", "modal"}
    /\ fw[c].pc = "manifest"
    /\ IF r = "throw"
       THEN /\ fw' = [fw EXCEPT ![c] =
                  IF @.kind = "modal" /\ AbortObserved(c)
                  THEN Leave([@ EXCEPT !.sawAbort = TRUE], "cancelled")
                  ELSE Leave(@, "error")]
            /\ UNCHANGED collectorVars
       ELSE IF r = "null"
       THEN /\ fw' = [fw EXCEPT ![c] = Leave(@, "Manifest not found")]
            /\ UNCHANGED collectorVars
       ELSE IF AbortObserved(c)
       THEN /\ fw' = [fw EXCEPT ![c] =
                  IF @.kind = "modal"
                  THEN Leave([@ EXCEPT !.checks = @ + 1, !.sawAbort = TRUE],
                             "cancelled")
                  ELSE Stopped(@)]
            /\ UNCHANGED collectorVars
       ELSE /\ fw' = [fw EXCEPT ![c] = WithDataRelays(Checked(@), relays)]
            /\ \E k \in Keys :
                  FetchChunksStart(c, k, Manifest.total_chunks,
                                   Manifest.chunks, micro)
    /\ UNCHANGED <<envVars, downloadAbortRef>>

ManifestReturn(c, r) == ManifestReturnWith(c, r, Manifest.relays)

\* downloadEncrypted is called with the key derived from the nsec entered
\* (keyOk: it is the key of the file's owner); the manifest is the one the
\* component holds. Up to "await fetchChunks".
DownloadEncryptedWith(c, keyOk, relays) ==
    /\ micro = <<>>
    /\ fw[c].pc = "idle"
    /\ c > 1 => fw[c - 1].pc # "idle"
    /\ ~downloadAbortRef
    /\ downloadAbortRef' = FALSE
    /\ fw' = [fw EXCEPT ![c] =
          WithDataRelays([NoCaller EXCEPT !.kind = "enc", !.pool = "open",
                                          !.keyOk = keyOk], relays)]
    /\ \E k \in Keys :
          FetchChunksStart(c, k, Manifest.total_chunks, Manifest.chunks, micro)
    /\ UNCHANGED envVars

DownloadEncrypted(c, keyOk) == DownloadEncryptedWith(c, keyOk, Manifest.relays)

\* DownloadModal's downloadEncrypted is called with the key derived from
\* the nsec entered, abortRef.current being false: createPool and the
\* manifest query. The frame's aborted field is the modal's abortRef.
ModalDownloadEncrypted(c, keyOk) ==
    /\ micro = <<>>
    /\ fw[c].pc = "idle"
    /\ c > 1 => fw[c - 1].pc # "idle"
    /\ fw' = [fw EXCEPT ![c] =
          [NoCaller EXCEPT !.kind = "modal", !.pc = "manifest",
                           !.pool = "open", !.keyOk = keyOk]]
    /\ UNCHANGED <<collectorVars, envVars, downloadAbortRef>>

\* a collection is shared through c when calls await c's collection or c
\* awaits another call's
SharedThrough(c) == waiters[c] # <<>> \/ fc[c].pc = "awaitInFlight"

\* aborting also closes the caller's subscription and clears the marker
SignalAbort_Detaches(c) ==
    /\ fw' = [fw EXCEPT ![c].aborted = TRUE, ![c].abortedAfter = fw[c].checks,
                        ![c].shared = SharedThrough(c)]
    /\ sub' = [sub EXCEPT ![c] = IF @ = "open" THEN "closed" ELSE @]
    /\ chunkCache' = [k \in Keys |-> ClearInFlight(chunkCache[k])]
    /\ UNCHANGED <<fc, fetchPromise, waiters, micro, lookups, progress,
                   overlap, envVars, downloadAbortRef>>

\* controller.abort(): the signal of the call is set, and nothing else
SignalAbort(c) ==
    /\ fw' = [fw EXCEPT ![c].aborted = TRUE, ![c].abortedAfter = fw[c].checks,
                        ![c].shared = SharedThrough(c)]
    /\ UNCHANGED <<collectorVars, envVars, downloadAbortRef>>

\* the owner of a running fetchFileBytes call aborts its signal; the modal
\* is cancelled (handleCancel: abortRef.current = true)
Abort(c) ==
    /\ micro = <<>>
    /\ fw[c].kind \in {"bytes", "modal"}
    /\ fw[c].pc \in {"manifest", "chunks"}
    /\ ~fw[c].aborted
    /\ SignalAbort(c)

\* FileDetail unmounts while an encrypted download is running
Unmount ==
    /\ micro = <<>>
    /\ ~downloadAbortRef
    /\ \E c \in Calls : fw[c].kind = "enc" /\ fw[c].pc = "chunks"
    /\ downloadAbortRef' = TRUE
    /\ UNCHANGED <<collectorVars, envVars, fw>>

\* fetchFileBytes after "await fetchChunks": the last checkpoint, the count
\* check, the assembly, and the finally block
BytesTail(c) ==
    LET chunks == fc[c].result
        f == [fw[c] EXCEPT !.got = Len(chunks)]
        a == AssembleBytes(chunks)
    IN  IF fc[c].pc = "failed" THEN Finished(fw[c], "error")
        ELSE IF AbortObserved(c) THEN Stopped(f)
        ELSE IF CountMismatch(chunks, Manifest.total_chunks)
        THEN Finished(Checked(f), "Missing chunks")
        ELSE IF a.ok
        THEN [Finished(Checked(f), "data") EXCEPT !.data = a.data]
        ELSE Finished(Checked(f), "error")

\* downloadEncrypted after "await fetchChunks": the abort check, the count
\* check, the decrypt loop, the save, and the catch and finally blocks
EncTailWith(c, abortRef) ==
    LET chunks == fc[c].result
        f == [fw[c] EXCEPT !.got = Len(chunks), !.checks = @ + 1,
                           !.sawAbort = abortRef]
        r == DecryptLoop(chunks, fw[c].keyOk, 1, <<>>)
    IN  IF fc[c].pc = "failed"
        THEN FinishedEnc([fw[c] EXCEPT !.sawAbort = abortRef],
                         IF abortRef THEN "cancelled" ELSE "error")
        ELSE IF abortRef THEN FinishedEnc(f, "cancelled")
        ELSE IF CountMismatch(chunks, Manifest.total_chunks)
        THEN FinishedEnc(f, "Missing chunks")
        ELSE IF r.ok
        THEN [FinishedEnc(f, "complete") EXCEPT !.decrypted = Len(r.parts),
                                                !.data = Concat(r.parts),
                                                !.saved = TRUE]
        ELSE [FinishedEnc(f, "Failed to decrypt") EXCEPT
                 !.decrypted = Len(r.parts)]

\* FileDetail's downloadEncrypted reads downloadAbortRef.current
EncTail(c) == EncTailWith(c, downloadAbortRef)

\* DownloadModal's downloadEncrypted reads its own abortRef.current
ModalTail(c) == EncTailWith(c, fw[c].aborted)

\* the caller's continuation of "await fetchChunks"
CallerResume(c) ==
    /\ micro # <<>>
    /\ micro[1] = [kind |-> "caller", call |-> c]
    /\ micro' = Tail(micro)
    /\ fw' = [fw EXCEPT ![c] =
          IF fw[c].kind = "bytes" THEN BytesTail(c)
          ELSE IF fw[c].kind = "modal" THEN ModalTail(c)
          ELSE EncTail(c)]
    /\ UNCHANGED <<chunkCache, fc, sub, fetchPromise, waiters, lookups,
                   progress, overlap, envVars, downloadAbortRef>>

InitFile ==
    /\ held \in HeldChoices
    /\ chunkCache = [k \in Keys |-> NoEntry]
    /\ fc = [c \in Calls |-> IdleFrame]
    /\ sub = [c \in Calls |-> "none"]
    /\ fetchPromise = [c \in Calls |-> "none"]
    /\ waiters = [c \in Calls |-> <<>>]
    /\ micro = <<>>
    /\ lookups = [c \in Calls |-> <<>>]
    /\ progress = [c \in Calls |-> <<>>]
    /\ overlap = [c \in Calls |-> NoCall]
    /\ fw = [c \in Calls |-> NoCaller]
    /\ downloadAbortRef = FALSE
    /\ dc = NoDecrypt
    /\ rs = NoResolve
    /\ fl = NoFileList
    /\ pd = NoPad

\* NCalls file operations, each a preview (fetchFileBytes) or an encrypted
\* download, with their collections
NextFile ==
    \/ \E c \in 1..NCalls, ab \in BOOLEAN : FetchFileBytes(c, ab)
    \/ \E c \in Calls, r \in ManifestResults : ManifestReturn(c, r)
    \/ \E c \in 1..NCalls, keyOk \in BOOLEAN : DownloadEncrypted(c, keyOk)
    \/ \E c \in Calls : Abort(c)
    \/ Unmount
    \/ \E c \in Calls : CallerResume(c)
    \/ Collect

SpecFile == InitFile /\ [][NextFile]_vars

\* what manifest.relays can be: absent, empty, or a list of relays
RelayChoices ==
    {NoRelays, RelayList(<<>>), RelayList(<<"wss://m1">>),
     RelayList(<<"wss://m1", "wss://m2">>)}

\* one file operation: a preview, FileDetail's encrypted download or the
\* modal's, of a file whose manifest has any of the relay fields
NextSolo ==
    \/ \E ab \in BOOLEAN : FetchFileBytes(1, ab)
    \/ \E r \in ManifestResults, relays \in RelayChoices :
          ManifestReturnWith(1, r, relays)
    \/ \E keyOk \in BOOLEAN, relays \in RelayChoices :
          DownloadEncryptedWith(1, keyOk, relays)
    \/ \E keyOk \in BOOLEAN : ModalDownloadEncrypted(1, keyOk)
    \/ Abort(1)
    \/ Unmount
    \/ CallerResume(1)
    \/ \E ev \in Events : Deliver(1, ev)
    \/ \E d \in TickDelays : PollTick(1, d)
    \/ QueryReturn(1)
    \/ QueryFail(1)
    \/ OwnResume(1)

SpecSolo == InitFile /\ [][NextSolo]_vars

(***************************************************************************)
(* The decryptor (lib/crypto.ts): decryptChunkBinary step by step.         *)
(*                                                                         *)
(* A payload string is described by what the steps read of it:             *)
(*   plen       its length in characters                                   *)
(*   chars      "hash" when it starts with '#', "other" when it holds a    *)
(*              character outside the base64 alphabet, else "base64"       *)
(*   pad        the number of trailing '=' characters                      *)
(*   vers       the first decoded byte                                     *)
(*   macKey     the conversation key under which its tag was computed      *)
(*   tagIntact  the tag and the bytes it covers are as the sender wrote    *)
(*   L          the 16-bit prefix of the padded plaintext it seals         *)
(***************************************************************************)
MIN_PLAINTEXT_SIZE == 1
MAX_PLAINTEXT_SIZE == 65535

RECURSIVE FloorLog2(_)
FloorLog2(n) == IF n < 2 THEN 0 ELSE 1 + FloorLog2(n \div 2)

RECURSIVE Pow2(_)
Pow2(k) == IF k = 0 THEN 1 ELSE 2 * Pow2(k - 1)

\* the bucket taken as nextPower / 8 whatever nextPower is
calcPaddedLen_NoFloor(len) ==
    IF len < 1 THEN NullIndex
    ELSE IF len <= 32 THEN 32
    ELSE LET nextPower == Pow2(FloorLog2(len - 1) + 1)
             chunk == nextPower \div 8
         IN  chunk * ((len - 1) \div chunk + 1)

\* calcPaddedLen(len); NullIndex stands for the throw on len < 1
calcPaddedLen(len) ==
    IF len < 1 THEN NullIndex
    ELSE IF len <= 32 THEN 32
    ELSE LET nextPower == Pow2(FloorLog2(len - 1) + 1)
             chunk == IF nextPower <= 256 THEN 32 ELSE nextPower \div 8
         IN  chunk * ((len - 1) \div chunk + 1)

\* base64.decode(payload): strict, so the length must divide by 4
Base64Decodes(payload) == payload.chars = "base64" /\ payload.plen % 4 = 0

\* the number of bytes base64.decode(payload) yields
DecodedLen(payload) == (payload.plen \div 4) * 3 - payload.pad

\* the tag left on the ciphertext: data.subarray(33)
decodePayload_TagKept(payload) ==
    LET dlen == DecodedLen(payload)
        Throw(e) == [error |-> e, dlen |-> 0, ctlen |-> 0]
    IN  IF payload.plen < 132 \/ payload.plen > 87472
        THEN Throw("invalid payload length")
        ELSE IF payload.chars = "hash"
        THEN Throw("unknown encryption version")
        ELSE IF ~Base64Decodes(payload) THEN Throw("invalid base64")
        ELSE IF dlen < 99 \/ dlen > 65603 THEN Throw("invalid data length")
        ELSE IF payload.vers # 2 THEN Throw("unknown encryption version")
        ELSE [error |-> "", dlen |-> dlen, ctlen |-> dlen - 33]

\* decodePayload(payload): the error thrown, or "" with the decoded length
\* and the length of the ciphertext data.subarray(33, -32)
decodePayload(payload) ==
    LET dlen == DecodedLen(payload)
        Throw(e) == [error |-> e, dlen |-> 0, ctlen |-> 0]
    IN  IF payload.plen < 132 \/ payload.plen > 87472
        THEN Throw("invalid payload length")
        ELSE IF payload.chars = "hash"
        THEN Throw("unknown encryption version")
        ELSE IF ~Base64Decodes(payload) THEN Throw("invalid base64")
        ELSE IF dlen < 99 \/ dlen > 65603 THEN Throw("invalid data length")
        ELSE IF payload.vers # 2 THEN Throw("unknown encryption version")
        ELSE [error |-> "", dlen |-> dlen, ctlen |-> dlen - 65]

\* the length check on the whole buffer left out
unpadBytes_AnyLength(L, len) ==
    LET sliceLen == Min(L, len - 2)
    IN  IF L < MIN_PLAINTEXT_SIZE \/ L > MAX_PLAINTEXT_SIZE \/ sliceLen # L
        THEN [error |-> "invalid padding", offset |-> 0, len |-> 0]
        ELSE [error |-> "", offset |-> 2, len |-> sliceLen]

\* unpadBytes(padded) for a buffer of len bytes whose first two bytes read
\* L: the bytes padded.subarray(2, 2 + L), or the throw
unpadBytes(L, len) ==
    LET sliceLen == Min(L, len - 2)
    IN  IF \/ L < MIN_PLAINTEXT_SIZE
           \/ L > MAX_PLAINTEXT_SIZE
           \/ sliceLen # L
           \/ len # 2 + calcPaddedLen(L)
        THEN [error |-> "invalid padding", offset |-> 0, len |-> 0]
        ELSE [error |-> "", offset |-> 2, len |-> sliceLen]

\* equalBytes(calculatedMac, mac): the tag computed under the conversation
\* key equals the tag the payload carries
TagMatches(payload, conversationKey) ==
    payload.tagIntact /\ payload.macKey = conversationKey

DecryptFailed(f, e) == [f EXCEPT !.pc = "failed", !.error = e]

\* nip44.v2.utils.getConversationKey(secretKey, pubkey): throws for a
\* secret key that is no valid scalar
DeriveKey ==
    /\ dc.pc = "derive"
    /\ dc' = IF dc.secretKey = "invalid"
             THEN DecryptFailed(dc, "invalid secret key")
             ELSE [dc EXCEPT !.pc = "decode", !.conversationKey = dc.secretKey]
    /\ UNCHANGED <<collectorVars, callerVars, held, rs, fl, pd>>

DecodePayload ==
    /\ dc.pc = "decode"
    /\ LET d == decodePayload(dc.payload)
       IN  dc' = IF d.error # "" THEN DecryptFailed(dc, d.error)
                 ELSE [dc EXCEPT !.pc = "mac", !.ctlen = d.ctlen]
    /\ UNCHANGED <<collectorVars, callerVars, held, rs, fl, pd>>

\* the comparison skipped
MacAccepted_Always(f) == TRUE

\* equalBytes(calculatedMac, mac)
MacAccepted(f) == TagMatches(f.payload, f.conversationKey)

\* getMessageKeys, hmacAad and the comparison of the tags
VerifyMac ==
    /\ dc.pc = "mac"
    /\ LET f == [dc EXCEPT !.log = @ \o <<"hkdfExpand", "hmac">>]
       IN  dc' = IF MacAccepted(f) THEN [f EXCEPT !.pc = "cipher"]
                 ELSE DecryptFailed(f, "invalid MAC")
    /\ UNCHANGED <<collectorVars, callerVars, held, rs, fl, pd>>

\* chacha20(chacha_key, chacha_nonce, ciphertext)
Cipher ==
    /\ dc.pc = "cipher"
    /\ dc' = [dc EXCEPT !.pc = "unpad", !.log = Append(@, "chacha20")]
    /\ UNCHANGED <<collectorVars, callerVars, held, rs, fl, pd>>

Unpad ==
    /\ dc.pc = "unpad"
    /\ LET u == unpadBytes(dc.payload.L, dc.ctlen)
       IN  dc' = IF u.error # "" THEN DecryptFailed(dc, u.error)
                 ELSE [dc EXCEPT !.pc = "done",
                                 !.result = [offset |-> u.offset, len |-> u.len]]
    /\ UNCHANGED <<collectorVars, callerVars, held, rs, fl, pd>>

\* the payload shapes tried: string length and number of '=' characters
PayloadShapes ==
    { <<131, 0>>, <<133, 0>>, <<132, 0>>, <<132, 1>>, <<176, 1>>, <<772, 0>>,
      <<87472, 1>>, <<87472, 0>>, <<87476, 0>> }

PrefixValues == {0, 1, 32, 33, 64, 500, 65535}

SecretKeys == {"owner", "other", "invalid"}

\* a string that does not decode has no decoded fields to vary
Payloads ==
    { [plen |-> sh[1], pad |-> sh[2], chars |-> ch, vers |-> v,
       macKey |-> mk, tagIntact |-> ti, L |-> l] :
        sh \in PayloadShapes, ch \in {"base64", "hash", "other"},
        v \in {1, 2}, mk \in {"owner", "other"}, ti \in BOOLEAN,
        l \in PrefixValues } \
    { q \in [plen : {sh[1] : sh \in PayloadShapes}, pad : {0, 1},
             chars : {"base64", "hash", "other"}, vers : {1, 2},
             macKey : {"owner", "other"}, tagIntact : BOOLEAN,
             L : PrefixValues] :
        /\ q.chars # "base64" \/ q.plen % 4 # 0
        /\ ~(q.vers = 2 /\ q.macKey = "owner" /\ q.tagIntact /\ q.L = 1) }

DecryptStart(payload, secretKey) ==
    [pc |-> "derive", payload |-> payload, secretKey |-> secretKey,
     conversationKey |-> "", ctlen |-> 0, log |-> <<>>, error |-> "",
     result |-> [offset |-> 0, len |-> 0]]

InitCrypto ==
    /\ held = {}
    /\ chunkCache = [k \in Keys |-> NoEntry]
    /\ fc = [c \in Calls |-> IdleFrame]
    /\ sub = [c \in Calls |-> "none"]
    /\ fetchPromise = [c \in Calls |-> "none"]
    /\ waiters = [c \in Calls |-> <<>>]
    /\ micro = <<>>
    /\ lookups = [c \in Calls |-> <<>>]
    /\ progress = [c \in Calls |-> <<>>]
    /\ overlap = [c \in Calls |-> NoCall]
    /\ fw = [c \in Calls |-> RawCaller]
    /\ downloadAbortRef = FALSE
    /\ rs = NoResolve
    /\ fl = NoFileList
    /\ pd = NoPad
    /\ \E payload \in Payloads, secretKey \in SecretKeys :
          dc = DecryptStart(payload, secretKey)

\* one decryptChunkBinary call on a payload
NextCrypto ==
    \/ DeriveKey
    \/ DecodePayload
    \/ VerifyMac
    \/ Cipher
    \/ Unpad

SpecCrypto == InitCrypto /\ [][NextCrypto]_vars

(***************************************************************************)
(* decryptNip44ToBytes on a sealed payload and on the same payload with    *)
(* one bit flipped. The buffers are scaled down: the ciphertext has CtBits *)
(* bits, the first standing for the length prefix, the tag has TagBits     *)
(* bits. chacha20 is the XOR with the key stream; HMAC-SHA256 is an ideal  *)
(* keyed function, its value the term that names the key and the bytes it  *)
(* was computed over, so that tags of different inputs differ.             *)
(***************************************************************************)
CtBits == 3      \* bits of the ciphertext
TagBits == 2     \* bits of the authentication tag

Bit == {0, 1}

Xor(a, b) == [i \in 1..Len(a) |-> (a[i] + b[i]) % 2]

FlipAt(s, i) == [j \in 1..Len(s) |-> IF j = i THEN 1 - s[j] ELSE s[j]]

\* hkdfExpand(sha256, conversationKey, nonce, 76) cut into its three keys
getMessageKeys(conversationKey, nonce) ==
    [chacha_key |-> <<"chacha_key", conversationKey, nonce>>,
     chacha_nonce |-> <<"chacha_nonce", conversationKey, nonce>>,
     hmac_key |-> <<"hmac_key", conversationKey, nonce>>]

\* the key stream of a key and nonce
KeyStream(chacha_key, chacha_nonce) ==
    [i \in 1..CtBits |->
        IF chacha_key[2] = "owner" THEN (i + (IF chacha_key[3] = "n1" THEN 0 ELSE 1)) % 2
        ELSE 1]

chacha20(chacha_key, chacha_nonce, data) ==
    Xor(KeyStream(chacha_key, chacha_nonce), data)

\* the tag computed over the nonce alone
hmacAad_AadOnly(key, message, aad) ==
    [key |-> key, over |-> <<aad>>, flipped |-> {}]

\* hmac(sha256, key, concatBytes(aad, message)); flipped names the bits of
\* the tag that were inverted since
hmacAad(key, message, aad) ==
    [key |-> key, over |-> <<aad, message>>, flipped |-> {}]

equalBytes(a, b) == a = b

\* what the sender publishes for a padded plaintext: NIP-44 v2 encryption
\* in a payload of 132 characters
Seal(conversationKey, nonce, padded) ==
    LET k == getMessageKeys(conversationKey, nonce)
        ciphertext == chacha20(k.chacha_key, k.chacha_nonce, padded)
    IN  [plen |-> 132, pad |-> 0, chars |-> "base64", vers |-> 2,
         nonce |-> nonce, ciphertext |-> ciphertext,
         mac |-> hmacAad(k.hmac_key, ciphertext, nonce)]

\* the bytes unpadBytes returns: the prefix bit gives the length
Unpadded(padded) == SubSeq(padded, 2, 2 + padded[1])

Sealed44(padded, nonce) ==
    [pc |-> "sealed", plain |-> padded, payload |-> Seal("owner", nonce, padded),
     tampered |-> "none", ctlen |-> 0, padded |-> <<>>, error |-> "",
     result |-> <<>>]

\* one bit of the ciphertext, or of the tag, is inverted on the way
FlipBit(part, i) ==
    /\ dc.pc = "sealed"
    /\ IF part = "ciphertext"
       THEN /\ i \in 1..CtBits
            /\ dc' = [dc EXCEPT !.pc = "decode", !.tampered = part,
                                !.payload.ciphertext = FlipAt(@, i)]
       ELSE /\ i \in 1..TagBits
            /\ dc' = [dc EXCEPT !.pc = "decode", !.tampered = part,
                                !.payload.mac.flipped = {i}]
    /\ UNCHANGED <<collectorVars, callerVars, held, rs, fl, pd>>

\* the payload arrives as it was sealed
Untouched ==
    /\ dc.pc = "sealed"
    /\ dc' = [dc EXCEPT !.pc = "decode"]
    /\ UNCHANGED <<collectorVars, callerVars, held, rs, fl, pd>>

Nip44Decode ==
    /\ dc.pc = "decode"
    /\ LET d == decodePayload(dc.payload)
       IN  dc' = IF d.error # "" THEN DecryptFailed(dc, d.error)
                 ELSE [dc EXCEPT !.pc = "mac", !.ctlen = d.ctlen]
    /\ UNCHANGED <<collectorVars, callerVars, held, rs, fl, pd>>

\* getMessageKeys, hmacAad, and "if (!equalBytes(calculatedMac, mac))"
Nip44Mac ==
    /\ dc.pc = "mac"
    /\ LET k == getMessageKeys("owner", dc.payload.nonce)
           calculatedMac == hmacAad(k.hmac_key, dc.payload.ciphertext,
                                    dc.payload.nonce)
       IN  dc' = IF ~equalBytes(calculatedMac, dc.payload.mac)
                 THEN DecryptFailed(dc, "invalid MAC")
                 ELSE [dc EXCEPT !.pc = "cipher"]
    /\ UNCHANGED <<collectorVars, callerVars, held, rs, fl, pd>>

Nip44Cipher ==
    /\ dc.pc = "cipher"
    /\ LET k == getMessageKeys("owner", dc.payload.nonce)
       IN  dc' = [dc EXCEPT !.pc = "unpad",
                            !.padded = chacha20(k.chacha_key, k.chacha_nonce,
                                                dc.payload.ciphertext)]
    /\ UNCHANGED <<collectorVars, callerVars, held, rs, fl, pd>>

Nip44Unpad ==
    /\ dc.pc = "unpad"
    /\ LET u == unpadBytes(1 + dc.padded[1], dc.ctlen)
       IN  dc' = IF u.error # "" THEN DecryptFailed(dc, u.error)
                 ELSE [dc EXCEPT !.pc = "done", !.result = Unpadded(dc.padded)]
    /\ UNCHANGED <<collectorVars, callerVars, held, rs, fl, pd>>

InitTamper ==
    /\ held = {}
    /\ chunkCache = [k \in Keys |-> NoEntry]
    /\ fc = [c \in Calls |-> IdleFrame]
    /\ sub = [c \in Calls |-> "none"]
    /\ fetchPromise = [c \in Calls |-> "none"]
    /\ waiters = [c \in Calls |-> <<>>]
    /\ micro = <<>>
    /\ lookups = [c \in Calls |-> <<>>]
    /\ progress = [c \in Calls |-> <<>>]
    /\ overlap = [c \in Calls |-> NoCall]
    /\ fw = [c \in Calls |-> RawCaller]
    /\ downloadAbortRef = FALSE
    /\ rs = NoResolve
    /\ fl = NoFileList
    /\ pd = NoPad
    /\ \E padded \in [1..CtBits -> Bit], nonce \in {"n1", "n2"} :
          dc = Sealed44(padded, nonce)

\* a sealed payload, at most one bit of it inverted, is decrypted by the
\* owner of the file
NextTamper ==
    \/ \E part \in {"ciphertext", "mac"}, i \in 1..(CtBits + TagBits) :
          FlipBit(part, i)
    \/ Untouched
    \/ Nip44Decode
    \/ Nip44Mac
    \/ Nip44Cipher
    \/ Nip44Unpad

SpecTamper == InitTamper /\ [][NextTamper]_vars

(***************************************************************************)
(* The resolver (lib/nostr.ts): fetchFileIndex and fetchManifest.          *)
(*                                                                         *)
(* An event's content is a string; it is described by what JSON.parse      *)
(* makes of it:                                                            *)
(*   text            "garbage" when it is no JSON text, else the type of   *)
(*                   the value it denotes: "null", "scalar" (a number, a   *)
(*                   string or a boolean), "object"                        *)
(*   version         the version member of an object: absent, a number,    *)
(*                   or a string                                           *)
(*   total_archives  the total_archives member of an index                 *)
(***************************************************************************)
MaxArchives == 2     \* greatest total_archives an index states
MaxRecords == 2      \* records one lookup returns

Page == 1..(MaxArchives + 2)

Payload(text, version, n) ==
    [text |-> text, version |-> version, total_archives |-> n]

Contents ==
    {Payload(t, Absent, 0) : t \in {"garbage", "null", "scalar", "object"}}
    \cup {Payload("object", v, 0) : v \in {Num(1), Text}}
    \cup {Payload("object", Num(2), n) : n \in 0..MaxArchives}

\* the records relays may hold under one lookup
Records == [created_at : {100, 200}, content : Contents]

\* what pool.querySync resolves to: the records received, each once
LookupResults ==
    {s \in UNION {[1..m -> Records] : m \in 0..MaxRecords} :
        \A i, j \in 1..Len(s) : s[i] = s[j] => i = j}

\* D_TAGS.CURRENT_INDEX and D_TAGS.archiveTag(n)
CURRENT_INDEX == <<"nostrsave-index">>

archiveTag(n) == <<"nostrsave-index-archive-", n>>

\* getDTagForPage with the archive number one too small
getDTagForPage_OffByOne(page, totalArchives) ==
    IF page = 1 THEN CURRENT_INDEX ELSE archiveTag(totalArchives + 1 - page)

getDTagForPage(page, totalArchives) ==
    IF page = 1
    THEN CURRENT_INDEX
    ELSE archiveTag(totalArchives + 2 - page)

\* a tie keeps the earlier record
Later_KeepsFirst(a, b) == IF a.created_at >= b.created_at THEN a ELSE b

\* (a, b) => a.created_at > b.created_at ? a : b
Later(a, b) == IF a.created_at > b.created_at THEN a ELSE b

RECURSIVE Reduce(_, _, _)
Reduce(events, acc, j) ==
    IF j > Len(events) THEN acc
    ELSE Reduce(events, Later(acc, events[j]), j + 1)

\* events.reduce(...) of a non-empty list, without an initial value
MostRecent(events) == Reduce(events, events[1], 2)

\* JSON.parse(event.content): throws on text that is no JSON
JSONParse(content) ==
    IF content.text = "garbage"
    THEN [ok |-> FALSE, value |-> content]
    ELSE [ok |-> TRUE, value |-> content]

\* value.version: a TypeError on null, undefined on a value without the
\* member
VersionOf(value) ==
    IF value.text = "null" THEN [ok |-> FALSE, version |-> Absent]
    ELSE IF value.text = "object" THEN [ok |-> TRUE, version |-> value.version]
    ELSE [ok |-> TRUE, version |-> Absent]

\* every version passes
VersionSupported_Any(version) == TRUE

\* !(x.version !== 2)
VersionSupported(version) == version = Num(2)

NoRecord == [created_at |-> 0, content |-> Payload("garbage", Absent, 0)]

\* no current index resolved
NoIndex == Payload("garbage", Absent, 0)

\* a fetchFileIndex or fetchManifest call awaiting the lookup it has made;
\* counts is filled in as the lookups resolve
Resolving(fn, page, stage, queries, current) ==
    [pc |-> "query", fn |-> fn, page |-> page, stage |-> stage,
     queries |-> queries, counts |-> <<>>, current |-> current,
     events |-> <<>>, selected |-> NoRecord, outcome |-> "none",
     error |-> "none"]

Resolved(f, events, selected, outcome, error) ==
    [f EXCEPT !.pc = "done", !.events = events, !.selected = selected,
              !.outcome = outcome, !.error = error]

\* the frame f after the pending lookup has resolved to events
Counted(f, events) == [f EXCEPT !.counts = Append(rs.counts, Len(events))]

\* the loop over the filters goes on whatever a lookup returned
LoopEnds_Never(events) == FALSE

\* if (events.length > 0) break;
LoopEnds(events) == Len(events) > 0

\* from a non-empty result to what the function does with it: the
\* selection, the parse in its try/catch, and the version check
Decide(f, events) ==
    LET event == MostRecent(events)
        p == JSONParse(event.content)
        v == VersionOf(p.value)
    IN  IF ~p.ok THEN Resolved(f, events, event, "null", "none")
        ELSE IF ~v.ok THEN Resolved(f, events, event, "throw", "TypeError")
        ELSE IF ~VersionSupported(v.version)
        THEN Resolved(f, events, event, "throw", "Unsupported version")
        ELSE Resolved(f, events, event, "value", "none")

\* fetchFileIndex(pool, relays, pubkey, page) is called: both branches
\* begin with the lookup of the current index
FetchFileIndex(page) ==
    /\ rs.pc = "idle"
    /\ rs' = Resolving("index", page, IF page = 1 THEN "page" ELSE "current",
                       <<CURRENT_INDEX>>, NoIndex)
    /\ UNCHANGED <<collectorVars, callerVars, held, dc, fl, pd>>

\* a lookup of fetchFileIndex resolves. The nested page-1 call of an
\* archive page hands its index to the outer call, which looks up the
\* archive; otherwise the result of the lookup is the result of the call.
IndexQuerySync ==
    /\ rs.pc = "query"
    /\ rs.fn = "index"
    /\ \E events \in LookupResults :
          LET d == IF events = <<>>
                   THEN Resolved(rs, events, NoRecord, "null", "none")
                   ELSE Decide(rs, events)
          IN  rs' = Counted(
                    IF rs.stage = "current" /\ d.outcome = "value"
                    THEN Resolving("index", rs.page, "page",
                             Append(rs.queries,
                                    getDTagForPage(rs.page,
                                        d.selected.content.total_archives)),
                             JSONParse(d.selected.content).value)
                    ELSE d, events)
    /\ UNCHANGED <<collectorVars, callerVars, held, dc, fl, pd>>

\* fetchManifest(pool, relays, pubkey, fileHash) is called: the '#x' lookup
FetchManifest ==
    /\ rs.pc = "idle"
    /\ rs' = Resolving("manifest", 0, "x", << <<"#x">> >>, NoIndex)
    /\ UNCHANGED <<collectorVars, callerVars, held, dc, fl, pd>>

\* a lookup of fetchManifest resolves: an empty '#x' result is followed by
\* the '#d' lookup, the first non-empty result ends the loop
ManifestQuerySync ==
    /\ rs.pc = "query"
    /\ rs.fn = "manifest"
    /\ \E events \in LookupResults :
          rs' = Counted(
                IF ~LoopEnds(events) /\ rs.stage = "x"
                THEN Resolving("manifest", 0, "d",
                               Append(rs.queries, <<"#d">>), NoIndex)
                ELSE IF events = <<>>
                THEN Resolved(rs, events, NoRecord, "null", "none")
                ELSE Decide(rs, events), events)
    /\ UNCHANGED <<collectorVars, callerVars, held, dc, fl, pd>>

InitResolve ==
    /\ held = {}
    /\ chunkCache = [k \in Keys |-> NoEntry]
    /\ fc = [c \in Calls |-> IdleFrame]
    /\ sub = [c \in Calls |-> "none"]
    /\ fetchPromise = [c \in Calls |-> "none"]
    /\ waiters = [c \in Calls |-> <<>>]
    /\ micro = <<>>
    /\ lookups = [c \in Calls |-> <<>>]
    /\ progress = [c \in Calls |-> <<>>]
    /\ overlap = [c \in Calls |-> NoCall]
    /\ fw = [c \in Calls |-> NoCaller]
    /\ downloadAbortRef = FALSE
    /\ dc = NoDecrypt
    /\ rs = NoResolve
    /\ fl = NoFileList
    /\ pd = NoPad

\* one fetchFileIndex or fetchManifest call against relays holding any
\* records
NextResolve ==
    \/ \E page \in Page : FetchFileIndex(page)
    \/ IndexQuerySync
    \/ FetchManifest
    \/ ManifestQuerySync

SpecResolve == InitResolve /\ [][NextResolve]_vars

(***************************************************************************)
(* Properties of the collector.                                            *)
(***************************************************************************)
StrictlyAscending(s) == \A j \in 1..(Len(s) - 1) : s[j].index < s[j + 1].index

Returned(c) == fc[c].pc = "done"
Collecting(c) == fc[c].pc \in {"stream", "fallback"}
Opened(c) == IF sub[c] = "none" THEN 0 ELSE 1

\* C1: the list a fetchChunks call returns has strictly ascending chunk
\* indices, hence one record per index, and no record of the relays
\* accounts for two of its entries however often it was delivered.
C1_ReturnedAscendingDistinct ==
    \A c \in Calls :
        Returned(c) =>
            /\ StrictlyAscending(fc[c].result)
            /\ Cardinality(Indices(fc[c].result)) = Len(fc[c].result)
            /\ \A ev \in Events :
                   Cardinality({ j \in 1..Len(fc[c].result) :
                                    fc[c].result[j].content = ev.content }) <= 1

\* a call returned two chunks that had entered the cache in descending
\* index order
C1_Witness ==
    \E c \in Calls, k \in Keys :
        /\ Returned(c) /\ fc[c].key = k /\ sub[c] = "closed"
        /\ Len(fc[c].result) = 2
        /\ Len(chunkCache[k].chunksByIndex) = 2
        /\ chunkCache[k].chunksByIndex[1].index > chunkCache[k].chunksByIndex[2].index

C4_AtMostOneCollectionPerKey ==
    \A k \in Keys :
        Cardinality({ c \in Calls : Collecting(c) /\ fc[c].key = k }) <= 1

\* C5: a call that finds totalChunks distinct indices in the cache entry
\* returns the cached chunks sorted by index within the same step: it
\* opens no subscription, issues no lookup, and leaves the cache entry and
\* its in-flight marker as they are.
C5_CacheHitNoNetwork ==
    [][\A c \in Calls, k \in Keys :
          ( /\ fc[c].pc = "idle" /\ fc'[c].pc # "idle" /\ fc'[c].key = k
            /\ chunkCache[k].present
            /\ Cardinality(Indices(chunkCache[k].chunksByIndex))
                  = fc'[c].totalChunks )
          => ( /\ fc'[c].pc = "done"
               /\ StrictlyAscending(fc'[c].result)
               /\ SeqRange(fc'[c].result) = SeqRange(chunkCache[k].chunksByIndex)
               /\ sub' = sub /\ lookups' = lookups
               /\ fetchPromise' = fetchPromise
               /\ chunkCache' = chunkCache )]_vars

\* a call returned the complete cache without ever subscribing or waiting
C5_Witness ==
    \E c \in Calls :
        /\ Returned(c) /\ sub[c] = "none" /\ fc[c].awaited = NoCall
        /\ lookups[c] = <<>>
        /\ Len(fc[c].result) = fc[c].totalChunks

\* C6: the step that ends a call's collection (completed, timed out
\* incomplete, or failed) leaves the key's in-flight marker cleared; and
\* between tasks a marker is set only while the collection it names is
\* running, so every call awaiting a marker awaits a running collection
\* or is already queued to resume.
C6_MarkerClearedAtEnd ==
    /\ [][\A c \in Calls :
             (fc[c].pc = "settled" /\ fc'[c].pc \in {"done", "failed"})
                => chunkCache'[fc[c].key].inFlight = NoCall]_vars
    /\ [](\A k \in Keys :
             (micro = <<>> /\ chunkCache[k].inFlight # NoCall)
                => Collecting(chunkCache[k].inFlight))
    /\ [](\A d \in Calls :
             fc[d].pc = "awaitInFlight"
                => \/ Collecting(fc[d].awaited)
                   \/ \E j \in 1..Len(micro) : micro[j].call = d
                   \/ fc[fc[d].awaited].pc = "settled")

\* one collection has failed and another has ended incomplete, and the
\* marker is clear
C6_Witness ==
    \E c, d \in Calls :
        /\ fc[c].pc = "failed" /\ fetchPromise[c] = "rejected"
        /\ Returned(d) /\ sub[d] = "closed"
        /\ Len(fc[d].result) < fc[d].totalChunks
        /\ chunkCache[fc[d].key].inFlight = NoCall

\* a poll tick of c's loop: its clock moves
Ticked(c) == fc[c].pc = "stream" /\ fc'[c].now > fc[c].now

PrevCount(c) == IF fc[c].lastSize > 0 THEN fc[c].lastSize ELSE fc[c].startSize

\* C23: the last-progress time of a collection changes only at a poll tick
\* at which the collection holds more distinct chunks than at the previous
\* advance, the chunks copied from the cache at the start counting as held
\* from the start
C23_ProgressTimeOnlyOnNewChunk ==
    [][\A c \in Calls :
          (fc[c].pc = "stream" /\ fc'[c].lastActivity # fc[c].lastActivity) =>
              /\ Ticked(c)
              /\ MapSize(fc[c].chunksByIndex) > PrevCount(c)]_vars

RECURSIVE Flatten(_)
Flatten(ss) == IF ss = <<>> THEN <<>> ELSE ss[1] \o Flatten(Tail(ss))

\* the ids c has asked the relays for so far
Asked(c) == Flatten(lookups[c])

\* the ids the chunk list gives for the indices of [0, totalChunks) that
\* c's collection lacks
WantedIds(c) ==
    LET infos == fc[c].chunkInfos
    IN  { infos[j].event_id :
            j \in { n \in 1..Len(infos) :
                      /\ infos[n].index \in 0..(fc[c].totalChunks - 1)
                      /\ infos[n].event_id # ""
                      /\ ~MapHas(fc[c].chunksByIndex, infos[n].index) } }

\* C24: when the subscription of a collection closes with chunks missing,
\* the ids to look up are exactly the hinted ids of the missing indices of
\* [0, totalChunks), and none is looked up when there is none; the lookups
\* ask for them in order in batches of 1 to CHUNK_ID_BATCH_SIZE ids, no id
\* twice; when the last lookup has returned every one of them has been
\* asked for; and a call whose collection has ended asks for nothing more
C24_LookupsExactlyForHintedMissing ==
    /\ [](\A c \in Calls :
            /\ \A j \in 1..Len(lookups[c]) :
                   Len(lookups[c][j]) \in 1..CHUNK_ID_BATCH_SIZE
            /\ Cardinality(SeqRange(Asked(c))) = Len(Asked(c))
            /\ fc[c].pc = "fallback" =>
                   Asked(c) = SubSeq(fc[c].missingIds, 1, Len(Asked(c)))
            /\ fc[c].pc \in {"idle", "awaitInFlight", "stream"} =>
                   lookups[c] = <<>>)
    /\ [][\A c \in Calls :
            /\ (fc[c].pc = "stream" /\ fc'[c].pc # "stream") =>
                  IF WantedIds(c) = {}
                     \/ MapSize(fc[c].chunksByIndex) >= fc[c].totalChunks
                  THEN fc'[c].pc = "settled" /\ lookups'[c] = <<>>
                  ELSE /\ fc'[c].pc = "fallback"
                       /\ SeqRange(fc'[c].missingIds) = WantedIds(c)
                       /\ Len(lookups'[c]) = 1
            /\ (fc[c].pc = "fallback" /\ fetchPromise'[c] = "resolved") =>
                  Asked(c)' = fc[c].missingIds
            /\ fc[c].pc \in {"settled", "done", "failed"} =>
                  lookups'[c] = lookups[c] /\ sub'[c] = sub[c]]_vars

\* a collection has asked for more ids than one batch holds, in two
\* lookups, and its call has returned
C24_Witness ==
    \E c \in Calls :
        /\ Returned(c)
        /\ Len(lookups[c]) = 2
        /\ Len(lookups[c][1]) = CHUNK_ID_BATCH_SIZE
        /\ Len(fc[c].result) < fc[c].totalChunks

\* c has done no network work: no subscription, no id lookup
NoNetwork(c) == sub[c] = "none" /\ lookups[c] = <<>>

\* C25: a call waiting for a collection in flight has no subscription and
\* has issued no lookup; it goes on only once that collection has ended,
\* and then, unless the collection failed, it returns the cached chunks
\* sorted by index without any network work when the cache holds
\* totalChunks indices, and otherwise opens a subscription of its own and
\* becomes the collection in flight
C25_WaiterIdleUntilCollectionEnds ==
    /\ [](\A c \in Calls :
            fc[c].pc = "awaitInFlight" =>
               NoNetwork(c) /\ fc[c].awaited \in Calls \ {c})
    /\ [][\A c \in Calls :
            (fc[c].pc = "awaitInFlight" /\ fc'[c].pc # "awaitInFlight") =>
               LET k == fc[c].key
               IN  /\ fetchPromise[fc[c].awaited] \in {"resolved", "rejected"}
                   /\ ~Collecting(fc[c].awaited)
                   /\ fetchPromise[fc[c].awaited] = "resolved" =>
                         IF MapSize(chunkCache[k].chunksByIndex)
                               = fc[c].totalChunks
                         THEN /\ Returned(c)'
                              /\ fc'[c].result =
                                    SortByIndex(chunkCache[k].chunksByIndex)
                              /\ NoNetwork(c)'
                              /\ chunkCache' = chunkCache
                         ELSE /\ fc'[c].pc \in {"stream", "settled"}
                              /\ sub'[c] # "none"
                              /\ chunkCache'[k].inFlight = c]_vars

\* a call that waited has returned the complete cache without network work
\* while another call had collected the chunks
C25_Witness ==
    \E c \in Calls :
        /\ Returned(c)
        /\ fc[c].awaited # NoCall
        /\ NoNetwork(c)
        /\ Len(fc[c].result) = fc[c].totalChunks
        /\ sub[fc[c].awaited] = "closed"

\* C26: when a call that ran a collection returns, its list is the chunk
\* set the cache holds for its key at that moment, sorted by index
C26_ResultIsCacheAtReturn ==
    [][\A c \in Calls :
          (fc[c].pc = "settled" /\ Returned(c)') =>
              fc'[c].result =
                 SortByIndex(chunkCache'[fc[c].key].chunksByIndex)]_vars

\* C27: no step removes a cache entry or an index from the chunk set of
\* a cache entry
C27_CacheOnlyGrows ==
    [][\A k \in Keys :
          chunkCache[k].present =>
              /\ chunkCache'[k].present
              /\ Indices(chunkCache[k].chunksByIndex)
                    \subseteq Indices(chunkCache'[k].chunksByIndex)]_vars

\* chunks are still cached after a collection has failed and a caller has
\* cancelled
C27_Witness ==
    /\ \E c \in Calls : fetchPromise[c] = "rejected" /\ fc[c].pc = "failed"
    /\ \E c \in Calls : fw[c].aborted /\ fw[c].pc = "end"
    /\ \E k \in Keys : chunkCache[k].present
                          /\ MapSize(chunkCache[k].chunksByIndex) > 0

\* the record a chunk set holds for index i
RecordAt(m, i) == CHOOSE ch \in SeqRange(m) : ch.index = i

\* C28: once the cache holds a record for an index of a key, no step
\* replaces it by another record
C28_CachedRecordNeverReplaced ==
    [][\A k \in Keys :
          \A i \in Indices(chunkCache[k].chunksByIndex) :
              /\ i \in Indices(chunkCache'[k].chunksByIndex)
              /\ RecordAt(chunkCache'[k].chunksByIndex, i)
                    = RecordAt(chunkCache[k].chunksByIndex, i)]_vars

\* C30: every chunk the cache held for the key when a call was made is in
\* the list the call returns, with the same record
C30_CachedChunksAreReturned ==
    \A c \in Calls :
        Returned(c) =>
            \A j \in 1..Len(fc[c].atCall) :
                \E i \in 1..Len(fc[c].result) :
                    fc[c].result[i] = fc[c].atCall[j]

\* C31: while a collection for a key is running, its subscription open or
\* a lookup of it pending, the in-flight marker of the key is set
C31_MarkerSetWhileCollecting ==
    \A c \in Calls :
        Collecting(c) => chunkCache[fc[c].key].inFlight # NoCall

\* C33: the counts the progress callback of one call receives are strictly
\* increasing, and none is greater than the call's totalChunks
C33_ProgressIncreasingWithinTotal ==
    \A c \in Calls :
        /\ \A j \in 1..(Len(progress[c]) - 1) :
               progress[c][j] < progress[c][j + 1]
        /\ \A j \in 1..Len(progress[c]) :
               progress[c][j] <= fc[c].totalChunks

\* c is the call whose continuation after "await cached.inFlight" runs next
WaiterNext(c) ==
    micro # <<>> /\ micro[1] = [kind |-> "waiter", call |-> c]

\* C34: a call that awaited a collection which failed fails on resuming,
\* for the rejection of that collection; it opens no subscription and
\* issues no lookup, then or later, and its resuming leaves the cache as
\* the failed collection left it
C34_WaiterFailsWithAwaitedError ==
    /\ [][\A c \in Calls :
             (WaiterNext(c) /\ fetchPromise[fc[c].awaited] = "rejected")
                => /\ fc'[c].pc = "failed"
                   /\ sub'[c] = "none" /\ lookups'[c] = <<>>
                   /\ chunkCache' = chunkCache
                   /\ fetchPromise' = fetchPromise]_vars
    /\ [][\A c \in Calls :
             (fc[c].pc = "failed" /\ sub[c] = "none")
                => /\ fc'[c].pc = "failed"
                   /\ sub'[c] = "none" /\ lookups'[c] = <<>>]_vars

\* a call that awaited a failed collection has failed in its turn, without
\* a subscription of its own, and the cache still holds what the failed
\* collection had gathered
C34_Witness ==
    \E c \in Calls :
        /\ fc[c].pc = "failed" /\ fc[c].awaited # NoCall
        /\ fetchPromise[fc[c].awaited] = "rejected"
        /\ sub[c] = "none" /\ lookups[c] = <<>>
        /\ chunkCache[fc[c].key].chunksByIndex # <<>>

\* C35: the subscription of a call is closed by the time the call issues
\* an id lookup and by the time it returns or fails; it is open only while
\* the call's collection is in its streaming loop; once closed it is never
\* open again, and the call's chunk map grows after the close only by the
\* answer to an id lookup
C35_SubscriptionClosedBeforeFallback ==
    /\ [](\A c \in Calls :
             /\ lookups[c] # <<>> => sub[c] = "closed"
             /\ fc[c].pc \in {"fallback", "settled", "done", "failed"}
                   => sub[c] # "open"
             /\ sub[c] = "open"
                   => fc[c].pc = "stream" /\ fetchPromise[c] = "pending")
    /\ [][\A c \in Calls :
             sub[c] = "closed" =>
                /\ sub'[c] = "closed"
                /\ MapSize(fc'[c].chunksByIndex) > MapSize(fc[c].chunksByIndex)
                      => fc[c].pc = "fallback"]_vars

\* a call whose loop timed out closed its subscription, issued an id
\* lookup and returned what the lookup added
C35_Witness ==
    \E c \in Calls :
        /\ Returned(c) /\ sub[c] = "closed" /\ lookups[c] # <<>>
        /\ fc[c].result # <<>>

(***************************************************************************)
(* Properties of the assemblers.                                           *)
(***************************************************************************)
Ended(c) == fw[c].pc = "end"

\* C2: a file buffer is returned (fetchFileBytes) or saved (encrypted
\* download) only by a call whose chunk list has manifest.total_chunks
\* entries; a call that comes to the count check with any other number of
\* chunks ends with the missing-chunks error, with no buffer and no save.
C2_NoTruncatedBuffer ==
    \A c \in Calls :
        /\ fw[c].got # Never => fw[c].got = Len(fc[c].result)
        /\ (fw[c].outcome \in {"data", "complete"} \/ fw[c].saved
              \/ fw[c].data # <<>>)
             => fw[c].got = Manifest.total_chunks
        /\ (Ended(c) /\ ~fw[c].sawAbort
              /\ fw[c].got \notin {Never, Manifest.total_chunks})
             => ( /\ fw[c].outcome = "Missing chunks"
                  /\ fw[c].data = <<>> /\ ~fw[c].saved )

\* a fetchFileBytes call short of chunks and an encrypted download short
\* of chunks have both ended with the missing-chunks error
C2_Witness ==
    \E c, d \in Calls :
        /\ fw[c].kind = "bytes" /\ fw[c].outcome = "Missing chunks"
        /\ fw[c].got # Never /\ fw[c].got < Manifest.total_chunks
        /\ fw[d].kind = "enc" /\ fw[d].outcome = "Missing chunks"
        /\ fw[d].got # Never /\ fw[d].got < Manifest.total_chunks

\* C7: an encrypted download that comes to the decrypt loop with a chunk
\* that does not decrypt under the key entered ends in the error state,
\* with no save and no buffer; and a save happens only after every chunk
\* of the list has decrypted.
C7_DecryptFailureNoPartialFile ==
    \A c \in Calls :
        /\ ( /\ fw[c].kind = "enc" /\ Ended(c) /\ ~fw[c].sawAbort
             /\ fw[c].got = Manifest.total_chunks
             /\ \E j \in 1..Len(fc[c].result) :
                   ~decryptChunkBinary(fc[c].result[j].content, fw[c].keyOk).ok )
           => ( /\ fw[c].outcome = "Failed to decrypt"
                /\ ~fw[c].saved /\ fw[c].data = <<>> )
        /\ fw[c].saved
           => ( /\ fw[c].outcome = "complete"
                /\ fw[c].decrypted = Len(fc[c].result)
                /\ \A j \in 1..Len(fc[c].result) :
                      decryptChunkBinary(fc[c].result[j].content, fw[c].keyOk).ok )

\* with the owner's key, the first chunk decrypted and a later one failed
C7_Witness ==
    \E c \in Calls :
        /\ fw[c].kind = "enc" /\ fw[c].keyOk
        /\ fw[c].outcome = "Failed to decrypt"
        /\ fw[c].decrypted > 0 /\ fw[c].decrypted < fw[c].got

\* C8: a fetchFileBytes call whose signal was set after k checkpoints and
\* that has run checkpoint k+1 has stopped there with the 'Aborted'
\* outcome and no data; and no call whose signal was set returns data or
\* ends with another error once it has run a checkpoint.
C8_AbortStopsAtNextCheckpoint ==
    \A c \in Calls :
        (fw[c].kind = "bytes" /\ fw[c].abortedAfter # Never)
            => /\ fw[c].outcome # "data"
               /\ fw[c].checks > fw[c].abortedAfter
                    => ( /\ Ended(c)
                         /\ fw[c].outcome = "Aborted"
                         /\ fw[c].checks = fw[c].abortedAfter + 1
                         /\ fw[c].data = <<>> )

\* the signal was set while the call awaited fetchChunks, which then
\* returned every chunk of the file: the call still ended 'Aborted'
C8_Witness ==
    \E c \in Calls :
        /\ fw[c].kind = "bytes" /\ fw[c].abortedAfter = 2
        /\ fw[c].outcome = "Aborted"
        /\ fw[c].got = Manifest.total_chunks

\* C9: the step that sets a caller's abort flag changes nothing of the
\* collector (subscriptions, lookups, cache, in-flight marker, pending
\* promises and their waiters); and a call that awaited the collection of
\* an aborted caller returns every chunk index that collection gathered.
C9_AbortLeavesCollectionRunning ==
    /\ [][( \/ \E c \in Calls : ~fw[c].aborted /\ fw'[c].aborted
            \/ ~downloadAbortRef /\ downloadAbortRef' )
          => UNCHANGED <<chunkCache, fc, sub, fetchPromise, waiters, micro,
                         lookups, progress>>]_vars
    /\ [](\A c, d \in Calls :
             ( /\ c # d /\ fc[d].awaited = c /\ fw[c].aborted
               /\ Returned(c) /\ Returned(d) )
             => Indices(fc[c].result) \subseteq Indices(fc[d].result))

\* a caller aborted while another call awaited the collection it started;
\* the collection went on to gather every chunk and the other call, which
\* opened no subscription, returned the file
C9_Witness ==
    \E c, d \in Calls :
        /\ c # d /\ fc[d].awaited = c /\ fc[c].awaited = NoCall
        /\ fw[c].shared /\ fw[c].outcome = "Aborted"
        /\ sub[c] = "closed" /\ sub[d] = "none"
        /\ Len(fc[c].result) = Manifest.total_chunks
        /\ fw[d].outcome \in {"data", "complete"}

\* the payload bytes of a chunk as the assembler of the given kind reads
\* them
PayloadBytes(kind, ch, keyOk) ==
    IF kind = "enc" THEN decryptChunkBinary(ch.content, keyOk).bytes
    ELSE base64ToUint8Array(ch.content).bytes

\* the payloads of a set of chunks with distinct indices, lowest index
\* first
RECURSIVE AscendingConcat(_, _, _)
AscendingConcat(S, kind, keyOk) ==
    IF S = {} THEN <<>>
    ELSE LET m == CHOOSE x \in S : \A y \in S : x.index <= y.index
         IN  PayloadBytes(kind, m, keyOk)
                \o AscendingConcat(S \ {m}, kind, keyOk)

\* C10: the buffer a call returns or saves is the concatenation of the
\* payloads of the chunks it gathered in strictly ascending index order,
\* a function of the set of chunks alone: two calls that gathered the same
\* set produce the same buffer whatever order the chunks arrived in.
C10_AssembledInIndexOrder ==
    /\ \A c \in Calls :
          fw[c].outcome \in {"data", "complete"}
             => fw[c].data = AscendingConcat(SeqRange(fc[c].result),
                                             fw[c].kind, fw[c].keyOk)
    /\ \A c, d \in Calls :
          ( /\ fw[c].outcome = "data" /\ fw[d].outcome = "data"
            /\ SeqRange(fc[c].result) = SeqRange(fc[d].result) )
             => fw[c].data = fw[d].data

\* a call returned the file whose chunk with the higher index had arrived
\* first
C10_Witness ==
    \E c \in Calls, k \in Keys :
        /\ fw[c].outcome = "data" /\ fc[c].key = k /\ sub[c] = "closed"
        /\ Len(fw[c].data) >= 2
        /\ Len(chunkCache[k].chunksByIndex) = 2
        /\ chunkCache[k].chunksByIndex[1].index > chunkCache[k].chunksByIndex[2].index

\* the indices of the chunks a call assembled, in the order assembled
AssembledIndices(c) ==
    [j \in 1..Len(fc[c].result) |-> fc[c].result[j].index]

\* C32: a call that returned a buffer or saved a file assembled the chunks
\* with the indices 0 .. total_chunks - 1, one per index: none outside
\* that range and none of the range skipped
C32_AssembledExactlyTheRange ==
    \A c \in Calls :
        (fw[c].outcome \in {"data", "complete"} \/ fw[c].saved)
           => AssembledIndices(c)
                 = [j \in 1..Manifest.total_chunks |-> j - 1]

\* the relays a fetchFileBytes call has queried: the index relays for the
\* manifest, and the data relays once fetchChunks was called
QueriedRelays(f) ==
    (IF f.pool = "none" THEN {} ELSE SeqRange(DEFAULT_INDEX_RELAYS))
       \cup SeqRange(f.dataRelays)

\* C36: a fetchFileBytes call that created a pool has, once it has ended
\* in whatever way, closed the pool exactly once, and the close covers
\* every relay the call queried, those of the manifest included
C36_PoolClosedOnceOverAllRelays ==
    \A c \in Calls :
        (fw[c].kind = "bytes" /\ Ended(c) /\ fw[c].pool # "none")
           => /\ fw[c].pool = "closed" /\ fw[c].closes = 1
              /\ QueriedRelays(fw[c]) \subseteq SeqRange(fw[c].closedRelays)

(***************************************************************************)
(* Properties of the decryptor.                                            *)
(***************************************************************************)
Ciphered == \E j \in 1..Len(dc.log) : dc.log[j] = "chacha20"

\* C15: a failed decryptChunkBinary call reports one of the five subkinds,
\* namely that of the first step that fails in the order: payload string
\* length, version marker, base64 decode, decoded length, version byte,
\* conversation-key derivation, MAC comparison, unpadding.
C15_FirstFailingStepInStatedOrder ==
    LET q == dc.payload
        dlen == (q.plen \div 4) * 3 - q.pad
        Subkind(e) ==
            IF e \in {"invalid payload length", "invalid data length"}
            THEN "InvalidPayloadLength"
            ELSE IF e = "unknown encryption version" THEN "UnknownVersion"
            ELSE IF e = "invalid base64" THEN "InvalidBase64"
            ELSE IF e = "invalid MAC" THEN "InvalidMac"
            ELSE IF e = "invalid padding" THEN "InvalidPadding"
            ELSE "Generic"
        stated ==
            IF q.plen < 132 \/ q.plen > 87472 THEN "InvalidPayloadLength"
            ELSE IF q.chars = "hash" THEN "UnknownVersion"
            ELSE IF q.chars # "base64" \/ q.plen % 4 # 0 THEN "InvalidBase64"
            ELSE IF dlen < 99 \/ dlen > 65603 THEN "InvalidPayloadLength"
            ELSE IF q.vers # 2 THEN "UnknownVersion"
            ELSE IF dc.secretKey = "invalid" THEN "Generic"
            ELSE IF ~(q.tagIntact /\ q.macKey = dc.secretKey) THEN "InvalidMac"
            ELSE "InvalidPadding"
    IN  dc.pc = "failed"
           => /\ Subkind(dc.error) # "Generic"
              /\ Subkind(dc.error) = stated

\* C16: the stream cipher has run only on a payload whose computed tag
\* equals the tag it carries, and after the tag was computed; a decodable
\* payload whose tag differs under the conversation key ends in the
\* invalid-MAC failure with the cipher never run.
C16_MacBeforeCipher ==
    /\ Ciphered
         => /\ TagMatches(dc.payload, dc.conversationKey)
            /\ \E i, j \in 1..Len(dc.log) :
                  i < j /\ dc.log[i] = "hmac" /\ dc.log[j] = "chacha20"
    /\ ( /\ dc.pc \in {"done", "failed"}
         /\ dc.secretKey # "invalid"
         /\ decodePayload(dc.payload).error = ""
         /\ ~TagMatches(dc.payload, dc.secretKey) )
         => (dc.pc = "failed" /\ dc.error = "invalid MAC" /\ ~Ciphered)

\* a payload sealed under the key entered whose tag or covered bytes
\* were altered has ended in the invalid-MAC failure
C16_Witness ==
    /\ dc.pc = "failed" /\ dc.error = "invalid MAC"
    /\ dc.payload.macKey = dc.conversationKey /\ ~dc.payload.tagIntact
    /\ dc.log = <<"hkdfExpand", "hmac">>

\* C17 as stated: paddedLength(1) = 32, paddedLength(32) = 32,
\* paddedLength(33) = 64 and paddedLength(500) = 768; so a padded buffer
\* accepted with prefix 500 has 2 + 768 bytes.
C17_PaddingTableAsStated ==
    /\ calcPaddedLen(1) = 32
    /\ calcPaddedLen(32) = 32
    /\ calcPaddedLen(33) = 64
    /\ calcPaddedLen(500) = 768
    /\ (dc.pc = "done" /\ dc.payload.L = 500) => dc.ctlen = 2 + 768

\* C17 as amended: paddedLength(1) = 32, paddedLength(32) = 32,
\* paddedLength(33) = 64 and paddedLength(500) = 512; a padded buffer
\* accepted with one of these prefixes has two bytes more than that.
C17_PaddingTable ==
    /\ calcPaddedLen(1) = 32
    /\ calcPaddedLen(32) = 32
    /\ calcPaddedLen(33) = 64
    /\ calcPaddedLen(500) = 512
    /\ (dc.pc = "done" /\ dc.payload.L \in {1, 32}) => dc.ctlen = 2 + 32
    /\ (dc.pc = "done" /\ dc.payload.L = 33) => dc.ctlen = 2 + 64
    /\ (dc.pc = "done" /\ dc.payload.L = 500) => dc.ctlen = 2 + 512

\* a plaintext of 500 bytes was unpadded from a buffer of 514 bytes
C17_Witness ==
    /\ dc.pc = "done" /\ dc.payload.L = 500
    /\ dc.result.len = 500 /\ dc.ctlen = 514

\* C18: a call that has come to the unpadding step ends with the L bytes
\* after the prefix exactly when 1 <= L <= 65535, at least L bytes follow
\* the prefix and the buffer has 2 + paddedLength(L) bytes, paddedLength
\* being 32 for n <= 32 and else, with p the next power of two from n and
\* bucket p/8 if p > 256 and 32 otherwise, bucket * (floor((n-1)/bucket)
\* + 1); in every other case it fails with invalid padding.
C18_UnpadAcceptsExactly ==
    LET L == dc.payload.L
        len == dc.ctlen
        NextPower(n) ==
            CHOOSE pw \in { Pow2(k) : k \in 0..16 } :
                pw >= n /\ \A qw \in { Pow2(k) : k \in 0..16 } :
                               qw >= n => pw <= qw
        Bucket(n) == IF NextPower(n) > 256 THEN NextPower(n) \div 8 ELSE 32
        paddedLength(n) ==
            IF n <= 32 THEN 32 ELSE Bucket(n) * ((n - 1) \div Bucket(n) + 1)
        accepted ==
            /\ 1 <= L /\ L <= 65535
            /\ len - 2 >= L
            /\ len = 2 + paddedLength(L)
    IN  /\ dc.pc = "done"
             => (accepted /\ dc.result = [offset |-> 2, len |-> L])
        /\ (dc.pc = "failed" /\ Ciphered)
             => (~accepted /\ dc.error = "invalid padding")

\* the longest plaintext was unpadded from the longest buffer
C18_Witness ==
    /\ dc.pc = "done" /\ dc.payload.L = MAX_PLAINTEXT_SIZE
    /\ dc.result = [offset |-> 2, len |-> MAX_PLAINTEXT_SIZE]
    /\ dc.ctlen = 2 + 65536


\* the relays fetchChunks subscribes to and queries: its relays argument
CollectionRelays(c) == fw[c].dataRelays

EncryptedRun(c) == fw[c].kind \in {"enc", "modal"}

\* C19: an encrypted download that was handed a key and has left, by
\* success, missing manifest, missing chunks, a decryption failure, a thrown
\* error or abort/unmount, has zeroed that key
C19_KeyZeroedOnEveryExit ==
    \A c \in Calls : EncryptedRun(c) /\ Ended(c) => fw[c].keyCleared

C19_Witness ==
    \E c \in Calls :
        /\ fw[c].kind = "modal"
        /\ Ended(c)
        /\ fw[c].outcome = "Manifest not found"
        /\ fw[c].keyCleared

\* C20: a collection started for a file operation uses the manifest's
\* relay list when that list is present and non-empty, and the default
\* relay list when it is absent or empty
C20_ManifestRelaysElseDefault ==
    \A c \in Calls :
        fw[c].kind # "none" /\ fc[c].pc # "idle" =>
            LET m == fw[c].manifestRelays
            IN  /\ (m.present /\ m.list # <<>>) =>
                       CollectionRelays(c) = m.list
                /\ (~m.present \/ m.list = <<>>) =>
                       CollectionRelays(c) = DEFAULT_INDEX_RELAYS

C20_Witness ==
    \E c \in Calls :
        /\ fw[c].kind = "bytes"
        /\ sub[c] = "open"
        /\ fw[c].manifestRelays = RelayList(<<"wss://m1", "wss://m2">>)
        /\ CollectionRelays(c) = <<"wss://m1", "wss://m2">>


(***************************************************************************)
(* Properties of the resolver.                                             *)
(***************************************************************************)
Answered == rs.pc = "done"

\* the selected record's payload is an object whose version is not 2
OtherVersion(content) == content.text = "object" /\ content.version # Num(2)

\* C11: fetchFileIndex and fetchManifest return a record only when its
\* version is 2; when the selected record is an object with any other
\* version the call throws the unsupported-version error and returns
\* neither the record nor null
C11_OnlyVersionTwoReturned ==
    Answered =>
        /\ rs.outcome = "value" =>
               /\ rs.selected.content.text = "object"
               /\ rs.selected.content.version = Num(2)
        /\ (rs.events # <<>> /\ OtherVersion(rs.selected.content)) =>
               /\ rs.outcome = "throw"
               /\ rs.error = "Unsupported version"

C11_Witness ==
    /\ Answered
    /\ rs.fn = "manifest"
    /\ rs.selected.content = Payload("object", Num(1), 0)
    /\ rs.outcome = "throw"
    /\ rs.error = "Unsupported version"

\* C12: fetchFileIndex and fetchManifest answer null when no record
\* matches and whenever the selected record's payload is not a JSON object,
\* and such a payload never makes the call throw
C12_MalformedPayloadIsNotFound ==
    Answered =>
        /\ rs.events = <<>> => rs.outcome = "null"
        /\ (rs.events # <<>> /\ rs.selected.content.text # "object") =>
               rs.outcome = "null"

\* C13: fetchFileIndex first looks up the current-index identifier; page 1
\* looks up nothing else, and page N > 1 then looks up the archive numbered
\* total_archives + 2 - N, total_archives being that of the current index
\* just resolved; pages 2..total_archives+1 map one-to-one onto the archive
\* numbers total_archives..1
C13_PageToIdentifier ==
    /\ (rs.pc # "idle" /\ rs.fn = "index") =>
          /\ rs.queries[1] = <<"nostrsave-index">>
          /\ Len(rs.queries) <= 2
          /\ rs.page = 1 => Len(rs.queries) = 1
          /\ Len(rs.queries) = 2 =>
                /\ rs.page > 1
                /\ rs.current.version = Num(2)
                /\ rs.queries[2] =
                      <<"nostrsave-index-archive-",
                        rs.current.total_archives + 2 - rs.page>>
    /\ \A t \in 0..MaxArchives :
          /\ {getDTagForPage(p, t) : p \in 2..(t + 1)} =
                {<<"nostrsave-index-archive-", n>> : n \in 1..t}
          /\ \A p, q \in 2..(t + 1) :
                getDTagForPage(p, t) = getDTagForPage(q, t) => p = q

C13_Witness ==
    /\ Answered
    /\ rs.fn = "index"
    /\ rs.page = 3
    /\ rs.current.total_archives = 2
    /\ rs.queries = <<CURRENT_INDEX, archiveTag(1)>>
    /\ rs.outcome = "value"

\* C14: of the records a lookup returned, the one selected has the greatest
\* created_at, and is the last in the list among those that have it
C14_GreatestTimestampLastSeen ==
    (Answered /\ rs.events # <<>>) =>
        \E i \in 1..Len(rs.events) :
            /\ rs.events[i] = rs.selected
            /\ \A j \in 1..Len(rs.events) :
                  rs.events[j].created_at <= rs.selected.created_at
            /\ \A j \in (i + 1)..Len(rs.events) :
                  rs.events[j].created_at < rs.selected.created_at

C14_Witness ==
    /\ Answered
    /\ Len(rs.events) = 2
    /\ rs.events[1].created_at = rs.events[2].created_at
    /\ rs.events[1].content # rs.events[2].content
    /\ rs.selected = rs.events[2]


\* C29: fetchManifest makes the '#x' lookup first and the '#d' lookup only
\* after the '#x' lookup returned no record, and no third lookup; it
\* selects among the records of the one lookup that returned any; and
\* when that lookup's most recent record is a version 2 manifest the call
\* returns it, whichever of the two lookups it was
C29_ContentTagThenIdentifierTag ==
    (rs.pc # "idle" /\ rs.fn = "manifest") =>
        /\ rs.queries \in { << <<"#x">> >>, << <<"#x">>, <<"#d">> >> }
        /\ Len(rs.queries) = 2 => rs.counts[1] = 0
        /\ rs.pc = "query" => Len(rs.counts) = Len(rs.queries) - 1
        /\ Answered =>
              /\ Len(rs.counts) = Len(rs.queries)
              /\ Len(rs.events) = rs.counts[Len(rs.counts)]
              /\ rs.events = <<>> =>
                    Len(rs.queries) = 2 /\ rs.outcome = "null"
              /\ rs.events # <<>> =>
                    /\ \E i \in 1..Len(rs.events) :
                          rs.selected = rs.events[i]
                    /\ (rs.selected.content.text = "object"
                        /\ rs.selected.content.version = Num(2)) =>
                          rs.outcome = "value"

\* the manifest was found by the '#d' lookup alone
C29_Witness ==
    /\ Answered
    /\ rs.fn = "manifest"
    /\ rs.queries = << <<"#x">>, <<"#d">> >>
    /\ rs.counts[1] = 0
    /\ rs.counts[2] > 0
    /\ rs.outcome = "value"

(***************************************************************************)
(* Properties of the decryptor under tampering.                            *)
(***************************************************************************)
\* C21: the decryption of a sealed payload of which one bit of the
\* ciphertext or of the tag was inverted fails with invalid MAC, and
\* whatever a decryption returns is the plaintext that was sealed
C21_BitFlipGivesInvalidMac ==
    /\ (dc.pc \in {"done", "failed"} /\ dc.tampered # "none") =>
          (dc.pc = "failed" /\ dc.error = "invalid MAC")
    /\ dc.pc \in {"cipher", "unpad"} => dc.tampered = "none"
    /\ dc.pc = "done" => dc.result = Unpadded(dc.plain)

C21_Witness ==
    /\ dc.pc = "failed"
    /\ dc.tampered = "ciphertext"
    /\ dc.error = "invalid MAC"

(***************************************************************************)
(* The file list (components/FileList.tsx): the component's state and the  *)
(* loads it has started. A load is a call of loadIndex awaiting            *)
(* fetchFileIndex; an index is described by the public key and the page it *)
(* was fetched for and by its total_archives.                              *)
(***************************************************************************)
MaxLoads == 3

\* the public keys the route can name
Pubkeys == {"pkA", "pkB"}

\* what a fetchFileIndex call can end with: an index, null, or an error
IndexResults ==
    {[kind |-> "index", total_archives |-> ta] : ta \in 0..MaxArchives}
       \cup {[kind |-> "null", total_archives |-> 0],
             [kind |-> "throw", total_archives |-> 0]}

\* loadIndex(pageNum) up to "await fetchFileIndex": setLoading(true),
\* setError(null), and the request for the pubkey of the current render
LoadIndex(f, pageNum) ==
    [f EXCEPT !.loading = TRUE, !.error = "null",
              !.issued = @ + 1,
              !.pending = @ \cup {[n |-> f.issued + 1, pubkey |-> f.pubkey,
                                   page |-> pageNum]}]

\* index ? index.total_archives + 1 : 1
TotalPages(f) == IF f.index.present THEN f.index.total_archives + 1 ELSE 1

\* the pagination buttons are rendered
PaginationShown(f) ==
    ~f.loading /\ f.error = "null" /\ f.index.present /\ TotalPages(f) > 1

\* the component as mounted for pkA: page 1, and the effect has called
\* loadIndex(1)
InitList ==
    /\ held = {}
    /\ chunkCache = [k \in Keys |-> NoEntry]
    /\ fc = [c \in Calls |-> IdleFrame]
    /\ sub = [c \in Calls |-> "none"]
    /\ fetchPromise = [c \in Calls |-> "none"]
    /\ waiters = [c \in Calls |-> <<>>]
    /\ micro = <<>>
    /\ lookups = [c \in Calls |-> <<>>]
    /\ progress = [c \in Calls |-> <<>>]
    /\ overlap = [c \in Calls |-> NoCall]
    /\ fw = [c \in Calls |-> NoCaller]
    /\ downloadAbortRef = FALSE
    /\ dc = NoDecrypt
    /\ rs = NoResolve
    /\ pd = NoPad
    /\ fl = LoadIndex([NoFileList EXCEPT !.pubkey = "pkA", !.page = 1,
                                         !.loading = TRUE], 1)

\* the route names another public key: the component renders with the new
\* prop, loadIndex is made anew and the effect calls it for the page kept
PubkeyChange(p) ==
    /\ p # fl.pubkey
    /\ fl.issued < MaxLoads
    /\ fl' = LoadIndex([fl EXCEPT !.pubkey = p], fl.page)
    /\ UNCHANGED <<collectorVars, callerVars, held, dc, rs, pd>>

\* "Newer": setPage(p => Math.max(1, p - 1)), then the effect
PageNewer ==
    /\ PaginationShown(fl) /\ fl.page # 1
    /\ fl.issued < MaxLoads
    /\ LET p == IF fl.page - 1 > 1 THEN fl.page - 1 ELSE 1
       IN  fl' = LoadIndex([fl EXCEPT !.page = p], p)
    /\ UNCHANGED <<collectorVars, callerVars, held, dc, rs, pd>>

\* "Older": setPage(p => Math.min(totalPages, p + 1)), then the effect
PageOlder ==
    /\ PaginationShown(fl) /\ fl.page # TotalPages(fl)
    /\ fl.issued < MaxLoads
    /\ LET p == IF TotalPages(fl) < fl.page + 1
                THEN TotalPages(fl) ELSE fl.page + 1
       IN  fl' = LoadIndex([fl EXCEPT !.page = p], p)
    /\ UNCHANGED <<collectorVars, callerVars, held, dc, rs, pd>>

\* "Retry": loadIndex(page)
Retry ==
    /\ fl.error # "null" /\ ~fl.loading
    /\ fl.issued < MaxLoads
    /\ fl' = LoadIndex(fl, fl.page)
    /\ UNCHANGED <<collectorVars, callerVars, held, dc, rs, pd>>

\* the rest of loadIndex once fetchFileIndex has settled with res: the
\* try, catch and finally blocks
LoadSettles(req, res) ==
    /\ req \in fl.pending
    /\ fl' = [fl EXCEPT
          !.pending = @ \ {req},
          !.loading = FALSE,
          !.error = IF res.kind = "index" THEN @
                    ELSE IF res.kind = "throw" THEN "Failed to fetch file index"
                    ELSE IF req.page = 1
                    THEN "No files found for this public key"
                    ELSE "Archive not found",
          !.index = IF res.kind = "index"
                    THEN [present |-> TRUE, pubkey |-> req.pubkey,
                          page |-> req.page,
                          total_archives |-> res.total_archives]
                    ELSE NoIndexShown]
    /\ UNCHANGED <<collectorVars, callerVars, held, dc, rs, pd>>

NextList ==
    \/ \E p \in Pubkeys : PubkeyChange(p)
    \/ PageNewer
    \/ PageOlder
    \/ Retry
    \/ \E req \in fl.pending, res \in IndexResults : LoadSettles(req, res)

SpecList == InitList /\ [][NextList]_vars

\* the load started last is still awaiting fetchFileIndex
LatestPending == \E req \in fl.pending : req.n = fl.issued

\* C37: the index the list shows is that of the public key and page
\* requested last, and while the load requested last is pending the list
\* shows the loading state and no error, whatever
\* older loads have answered meanwhile
C37_ListShowsLatestRequest ==
    /\ (~fl.loading /\ fl.error = "null" /\ fl.index.present)
          => fl.index.pubkey = fl.pubkey /\ fl.index.page = fl.page
    /\ LatestPending => fl.loading /\ fl.error = "null"

(***************************************************************************)
(* The padding scheme (lib/crypto.ts): calcPaddedLen on every plaintext    *)
(* length unpadBytes admits.                                               *)
(***************************************************************************)
\* calcPaddedLen is about to be called with a length of
\* [MIN_PLAINTEXT_SIZE, MAX_PLAINTEXT_SIZE]
InitPad ==
    /\ held = {}
    /\ chunkCache = [k \in Keys |-> NoEntry]
    /\ fc = [c \in Calls |-> IdleFrame]
    /\ sub = [c \in Calls |-> "none"]
    /\ fetchPromise = [c \in Calls |-> "none"]
    /\ waiters = [c \in Calls |-> <<>>]
    /\ micro = <<>>
    /\ lookups = [c \in Calls |-> <<>>]
    /\ progress = [c \in Calls |-> <<>>]
    /\ overlap = [c \in Calls |-> NoCall]
    /\ fw = [c \in Calls |-> NoCaller]
    /\ downloadAbortRef = FALSE
    /\ dc = NoDecrypt
    /\ rs = NoResolve
    /\ fl = NoFileList
    /\ \E n \in MIN_PLAINTEXT_SIZE..MAX_PLAINTEXT_SIZE :
          pd = [NoPad EXCEPT !.pc = "called", !.len = n]

\* calcPaddedLen(len) returns
Pad ==
    /\ pd.pc = "called"
    /\ pd' = [pd EXCEPT !.pc = "done", !.padded = calcPaddedLen(pd.len)]
    /\ UNCHANGED <<collectorVars, callerVars, held, dc, rs, fl>>

NextPad == Pad

SpecPad == InitPad /\ [][NextPad]_vars

\* C38: for a length n of [1, 65535] the padded length is a multiple of
\* 32, at least n and at most 65536, no greater than the padded length of
\* n + 1, and its own padded length
C38_PaddedLengthLaws ==
    pd.pc = "done" =>
        /\ pd.padded % 32 = 0
        /\ pd.len <= pd.padded /\ pd.padded <= 65536
        /\ pd.len < MAX_PLAINTEXT_SIZE => pd.padded <= calcPaddedLen(pd.len + 1)
        /\ calcPaddedLen(pd.padded) = pd.padded

\* a length just past a power of two was padded to the next bucket of its
\* range
C38_Witness ==
    pd.pc = "done" /\ pd.len = 257 /\ pd.padded = 320

(***************************************************************************)
(* The length checks of decodePayload on the base64 text of every byte     *)
(* count around the two accepted ranges.                                   *)
(***************************************************************************)
\* base64.encode of n bytes: four characters for every three bytes begun,
\* the last group filled up with '='
Base64Of(n) ==
    [plen |-> 4 * ((n + 2) \div 3), pad |-> (3 - (n % 3)) % 3]

\* the payload of version 2 whose base64 text encodes n bytes, sealed by
\* the owner over a one-byte plaintext
SealedOfLength(n) ==
    [plen |-> Base64Of(n).plen, pad |-> Base64Of(n).pad, chars |-> "base64",
     vers |-> 2, macKey |-> "owner", tagIntact |-> TRUE, L |-> 1]

\* decryptChunkBinary is called on the text of 96 to 65606 bytes
InitLength ==
    /\ held = {}
    /\ chunkCache = [k \in Keys |-> NoEntry]
    /\ fc = [c \in Calls |-> IdleFrame]
    /\ sub = [c \in Calls |-> "none"]
    /\ fetchPromise = [c \in Calls |-> "none"]
    /\ waiters = [c \in Calls |-> <<>>]
    /\ micro = <<>>
    /\ lookups = [c \in Calls |-> <<>>]
    /\ progress = [c \in Calls |-> <<>>]
    /\ overlap = [c \in Calls |-> NoCall]
    /\ fw = [c \in Calls |-> RawCaller]
    /\ downloadAbortRef = FALSE
    /\ rs = NoResolve
    /\ fl = NoFileList
    /\ pd = NoPad
    /\ \E n \in 96..65606 : dc = DecryptStart(SealedOfLength(n), "owner")

NextLength ==
    \/ DeriveKey
    \/ DecodePayload

SpecLength == InitLength /\ [][NextLength]_vars

\* C39: the text of a byte count of [99, 65603] has a length of
\* [132, 87472], 99 bytes giving 132 characters and 65603 bytes 87472; a
\* text length of that range is the base64 length of some byte count of
\* [99, 65603]; decodePayload passes exactly the byte counts of
\* [99, 65603], and the ciphertext it hands on, the decoded bytes less the
\* version byte, the 32 nonce bytes and the 32 tag bytes, has between
\* 2 + paddedLength(1) = 34 and 2 + paddedLength(65535) = 65538 bytes, the
\* 2-byte length prefix among them
C39_LengthRangesConsistent ==
    dc.pc \in {"mac", "failed"} =>
        LET d == DecodedLen(dc.payload)
            plen == dc.payload.plen
        IN  /\ d \in 99..65603 =>
                  /\ plen \in 132..87472
                  /\ dc.pc = "mac"
                  /\ dc.ctlen = d - 1 - 32 - 32
                  /\ dc.ctlen \in 34..65538
                  /\ dc.ctlen >= 2 + calcPaddedLen(MIN_PLAINTEXT_SIZE)
                  /\ dc.ctlen <= 2 + calcPaddedLen(MAX_PLAINTEXT_SIZE)
                  /\ dc.ctlen >= 2
            /\ d = 99 => plen = 132
            /\ d = 65603 => plen = 87472
            /\ plen \in 132..87472 =>
                  \E b \in (3 * (plen \div 4) - 2)..(3 * (plen \div 4)) :
                      b \in 99..65603 /\ Base64Of(b).plen = plen
            /\ dc.pc = "mac" => d \in 99..65603

\* the longest text accepted was decoded, its ciphertext of
\* 2 + paddedLength(65535) bytes
C39_Witness ==
    /\ dc.pc = "mac" /\ dc.payload.plen = 87472
    /\ DecodedLen(dc.payload) = 65603
    /\ dc.ctlen = 2 + calcPaddedLen(MAX_PLAINTEXT_SIZE)

====
